---- MODULE Spec2Model ----
(***************************************************************************)
(* A model of pg-schema-sync: the parallel data-migration engine           *)
(* (src/src/pg_schema_sync/dataMig.py) and the parts of the schema tool    *)
(* (src/src/pg_schema_sync/__main__.py) its properties are stated about.   *)
(*                                                                         *)
(* SQL text is modelled as a sequence of tokens; a database executes a     *)
(* statement by reading its tokens back.                                   *)
(***************************************************************************)
EXTENDS Integers, Sequences, FiniteSets, TLC

(***************************************************************************)
(* Bounds of the model.  MAX_WORKERS (5 in dataMig.py:270) and BATCH_SIZE  *)
(* (20 in dataMig.py:109 and :165) are scaled down so that more tables     *)
(* than workers and more constraints than one batch fit in the model;      *)
(* max_total_attempts is the parameter of run_data_migration_parallel      *)
(* (default 10).                                                           *)
(***************************************************************************)
NumTables == 3
NumFKs == 3
MaxRowId == 2
MAX_WORKERS == 2
BATCH_SIZE == 2
max_total_attempts == 2
\* How many times a connection fails by itself during the load (a source
\* query error, a target connection lost).
MaxConnFaults == 1

\* Python's None, as returned by get_conn_from_pool on an empty free list.
None == -1

TableNames == <<"t1", "t2", "t3", "t4", "t5">>
SKIP_TABLES == {"slow_request_logs", "member_action_log"}

\* The keys of src_tables_meta, in dictionary order.
src_tables_meta == [i \in 1..(NumTables + 1) |->
                      IF i <= NumTables THEN TableNames[i] ELSE "slow_request_logs"]

Range(s) == {s[i] : i \in 1..Len(s)}
Tables == Range(src_tables_meta)
Min(a, b) == IF a < b THEN a ELSE b

RowIds == 1..MaxRowId
Slots == 0..(MAX_WORKERS - 1)

\* SELECT * FROM public."<table>" on the source: the ids of the rows read.
src_rows(t) ==
    CASE t = "t1" -> RowIds
      [] t = "t2" -> {}
      [] OTHER    -> {1}

(***************************************************************************)
(* The target's foreign keys.  A catalog entry is a record                 *)
(* [table, name, body, validated]; names are unique and ordered as in      *)
(* FkNames, which is also the order of (table, name).                      *)
(***************************************************************************)
FkNames == <<"fk1", "fk2", "fk3", "fk4", "fk5">>
FkTables == <<"t1", "t1", "t2", "t3", "t3">>
FkBodies == <<"FOREIGN KEY (a) REFERENCES t2(id)",
              "FOREIGN KEY (b) REFERENCES t3(id) ON DELETE CASCADE",
              "FOREIGN KEY (c) REFERENCES t1(id)",
              "FOREIGN KEY (d, e) REFERENCES t1(d, e)",
              "FOREIGN KEY (f) REFERENCES t2(id) ON UPDATE SET NULL">>

NameRank(n) == CHOOSE i \in 1..Len(FkNames) : FkNames[i] = n

FkEntry(i, validated) ==
    [table |-> FkTables[i], name |-> FkNames[i], body |-> FkBodies[i],
     validated |-> validated]

\* pg_get_constraintdef: the body, followed by NOT VALID for a constraint
\* that has not been validated.
pg_get_constraintdef(c) ==
    IF c.validated THEN <<c.body>> ELSE <<c.body, "NOT VALID">>

RECURSIVE OrderByName(_)
OrderByName(S) ==
    IF S = {} THEN <<>>
    ELSE LET c == CHOOSE c \in S : \A d \in S : NameRank(c.name) <= NameRank(d.name)
         IN <<c>> \o OrderByName(S \ {c})

\* get_all_foreign_keys: rows (table_name, constraint_name, constraint_def),
\* ordered by table_name, conname.
get_all_foreign_keys(catalog) ==
    LET ordered == OrderByName(catalog)
    IN [k \in 1..Len(ordered) |->
          <<ordered[k].table, ordered[k].name, pg_get_constraintdef(ordered[k])>>]

FkKey(fk) == <<fk[1], fk[2]>>
CatalogKeys(catalog) == {<<c.table, c.name>> : c \in catalog}

\* drop_sql of drop_all_foreign_keys.
drop_sql_naming_the_table(fk) == <<"ALTER TABLE", fk[1], "DROP CONSTRAINT IF EXISTS", fk[1]>>
drop_sql(fk) == <<"ALTER TABLE", fk[1], "DROP CONSTRAINT IF EXISTS", fk[2]>>

\* add_sql of recreate_foreign_keys_not_valid.
add_sql_without_not_valid(fk) == <<"ALTER TABLE", fk[1], "ADD CONSTRAINT", fk[2]>> \o fk[3]
add_sql(fk) ==
    <<"ALTER TABLE", fk[1], "ADD CONSTRAINT", fk[2]>> \o fk[3] \o <<"NOT VALID">>

\* The target executing ALTER TABLE t DROP CONSTRAINT IF EXISTS n.
ExecDrop(catalog, stmt) ==
    {c \in catalog : ~(c.table = stmt[2] /\ c.name = stmt[4])}

\* ALTER TABLE t ADD CONSTRAINT n <definition>: the definition is a body
\* followed by constraint attributes, here NOT VALID; the server accepts an
\* attribute that is repeated (only conflicting attributes are an error), and
\* a definition without a body is a syntax error.
AddDef(stmt) == SubSeq(stmt, 5, Len(stmt))
AddWellFormed(stmt) ==
    LET def == AddDef(stmt)
    IN /\ Len(def) >= 1
       /\ def[1] # "NOT VALID"
       /\ \A k \in 2..Len(def) : def[k] = "NOT VALID"
\* The statement cannot succeed: syntax error, or the constraint exists.
AddMustFail(catalog, stmt) ==
    \/ ~AddWellFormed(stmt)
    \/ <<stmt[2], stmt[4]>> \in CatalogKeys(catalog)
ExecAddNothing(catalog, stmt) == catalog
ExecAdd(catalog, stmt) ==
    catalog \cup {[table |-> stmt[2], name |-> stmt[4], body |-> AddDef(stmt)[1],
                   validated |-> Len(AddDef(stmt)) = 1]}

\* connection_pool[0][1], the connection both foreign key functions are given.
fk_slot == 0

\* The statements of a batch that take effect once its batch pass has failed
\* and been rolled back: each is executed again and committed on its own,
\* but those that fail again (failing), which are rolled back and skipped.
retry_none(idx, failing) == {}
retry_one_by_one(idx, failing) == idx \ failing

\* fks[i:i+BATCH_SIZE]
Batch(fks, i) == SubSeq(fks, i + 1, Min(i + BATCH_SIZE, Len(fks)))

(***************************************************************************)
(* INSERT ... ON CONFLICT (id) DO NOTHING of the rows read, on a target    *)
(* table held as a bag (id -> number of copies).                           *)
(***************************************************************************)
executemany_without_conflict_clause(bag, rows) ==
    [i \in RowIds |-> IF i \in rows THEN bag[i] + 1 ELSE bag[i]]
executemany(bag, rows) ==
    [i \in RowIds |-> IF i \in rows /\ bag[i] = 0 THEN 1 ELSE bag[i]]

VARIABLES
    pc,                     \* where run_data_migration_parallel is
    tgt_fks,                \* the target's foreign-key catalog
    fks,                    \* fks of drop_all_foreign_keys
    dropped_fks,            \* what drop_all_foreign_keys returned
    batch_i,                \* i of the batch loops
    attempt,                \* the round number
    remaining_tables,
    next_round,
    work_queue,             \* the executor's queue of submitted tasks
    task,                   \* table -> state of its task in this round
    conn_idx,               \* worker (by table) -> slot index it took
    result,                 \* table -> what its future holds
    available_connections,
    src_state,              \* slot -> state of its source connection
    tgt_state,              \* slot -> state of its target connection
    tgt_rows,               \* table -> bag of ids on the target
    tgt_unique_id,          \* tables whose target has a unique id column
    validate_script,
    reported_failed,
    exc,                    \* the exception on its way out of the function
    \* history
    fks_at_start,           \* the target's catalog when the run began
    attempt_log,            \* table -> outcomes of its attempts, in order
    drop_failed,            \* keys whose DROP failed in the one-by-one retry
    issued_add,             \* ADD CONSTRAINT statements sent to the target
    add_failed,             \* keys with an ADD CONSTRAINT statement that failed
    fk_retries,             \* the batches the running DROP or ADD function has
                            \* rolled back and retried one by one
    conn_faults             \* connection failures so far

engineVars == <<pc, tgt_fks, fks, dropped_fks, batch_i, attempt, remaining_tables,
                next_round, work_queue, task, conn_idx, result,
                available_connections, src_state, tgt_state, tgt_rows,
                tgt_unique_id, validate_script, reported_failed, exc, fks_at_start,
                attempt_log, drop_failed, issued_add, add_failed, fk_retries,
                conn_faults>>

\* Groups, for the UNCHANGED clauses.
loadVars == <<attempt, remaining_tables, next_round, work_queue, task, conn_idx,
              result, available_connections, attempt_log>>
connVars == <<src_state, tgt_state, conn_faults>>
fkLog == <<drop_failed, issued_add, add_failed, fk_retries>>
outVars == <<validate_script, reported_failed, exc>>

\* The dependency sort (dataMig.py:379-442) and its input.
VARIABLES
    fk_rows,                \* the rows of the foreign-key query, in its order
    sorted_tables,          \* what sort_tables_by_fk_dependency returned
    sort_pc

sortVars == <<fk_rows, sorted_tables, sort_pc>>

\* The migration executor of main (__main__.py:1961-2040).
VARIABLES
    all_migration_sql,      \* the plan: the kind of each block
    block_i,                \* the block the for loop is at (from 1)
    tgt_db,                 \* the target: committed blocks, open transaction
    tgt_conn,               \* "open" / "closed"
    executed_count,
    failed_count,
    execution_successful,
    exec_report,            \* what the run printed at its end
    exec_pc,
    exec_sent               \* history: the blocks passed to cur.execute

execVars == <<all_migration_sql, block_i, tgt_db, tgt_conn, executed_count,
              failed_count, execution_successful, exec_report, exec_pc, exec_sent>>

\* The foreign-key pass of compare_and_generate_migration
\* (__main__.py:991-1337).
VARIABLES
    src_fk_map,             \* key -> DDL, from extract_foreign_keys
    tgt_fk_map,
    fk_not_valid,
    fk_validate_sql,        \* main's list of VALIDATE CONSTRAINT statements
    migration_sql,
    skipped_sql,
    diff_todo,              \* the names the running for loop has not visited
    diff_pc

diffVars == <<src_fk_map, tgt_fk_map, fk_not_valid, fk_validate_sql, migration_sql,
              skipped_sql,
              diff_todo, diff_pc>>

\* compare_and_generate_migration for the other object types
\* (__main__.py:991-1337); it writes migration_sql and skipped_sql too.
VARIABLES
    obj_type,
    use_alter,
    cmp_pc,
    cmp_name,               \* the name the for loop is at; names are 1, 2, ...
    src_entry,                \* the entry of src_data under that name, if any
    tgt_entry,                \* the entry of tgt_data under that name, if any
    alter_statements,
    cmp_snapshot,           \* the snapshot both arguments were, when known
    cmp_first               \* what the previous call on that snapshot returned

cmpVars == <<obj_type, use_alter, cmp_pc, cmp_name, src_entry, tgt_entry,
             alter_statements, cmp_snapshot, cmp_first>>

\* The reconciliation of sequence values after the data load
\* (__main__.py:1849-1949, 658-708).
VARIABLES
    tgt_seq,                \* target sequence -> (last_value, is_called)
    src_seq,                \* source sequence -> (last_value, is_called)
    tgt_max_id,             \* identity column -> COALESCE(MAX(column), 0)
    seq_todo,               \* what the running for loop has not visited
    seq_tx,                 \* the target connection's transaction
    seq_pc,
    seq_before,             \* history: tgt_seq when the reconciliation began
    seq_log                 \* history: name -> what each visit printed

seqVars == <<tgt_seq, src_seq, tgt_max_id, seq_todo, seq_tx, seq_pc, seq_before, seq_log>>

\* main (__main__.py:1502-2042) as a process, and the head of
\* run_data_migration_parallel (dataMig.py:239-266) as main or another
\* caller calls it.
VARIABLES
    args,                   \* the parsed command line
    files,                  \* path -> what is in the file
    caller,                 \* "main", or "direct" for a call of the function
    call_keywords,          \* the keyword arguments of the call of the function
    server_up,              \* whether the databases accept connections
    source_config,
    target_config,
    connect_calls,          \* history: the configurations given to get_connection
    schema_executed,        \* the plan was executed on the target
    data_phases,            \* history: the phases of the engine that ran
    remaining_failed,       \* the engine ended with tables permanently failed
    printed,                \* history: the messages that tell the outcome
    raised,                 \* the exception on its way, "none" if none
    exit_status,            \* <<status>> once the process has exited
    main_pc

mainVars == <<args, files, caller, call_keywords, server_up, source_config, target_config,
              connect_calls, schema_executed, data_phases, remaining_failed, printed,
              raised, exit_status, main_pc>>

\* What the engine never writes: its inputs and the other components' state.
fixedVars == <<tgt_unique_id, fks_at_start, sortVars, execVars, diffVars, cmpVars, seqVars,
               mainVars>>

vars == <<engineVars, sortVars, execVars, diffVars, cmpVars, seqVars, mainVars>>

\* A component that is not the one under study stays in its idle state.
EngineIdle ==
    /\ pc = "idle"
    /\ tgt_fks = {}
    /\ fks_at_start = {}
    /\ fks = <<>>
    /\ dropped_fks = <<>>
    /\ batch_i = 0
    /\ attempt = 1
    /\ remaining_tables = <<>>
    /\ next_round = <<>>
    /\ work_queue = <<>>
    /\ task = <<>>
    /\ conn_idx = <<>>
    /\ result = <<>>
    /\ available_connections = <<>>
    /\ src_state = <<>>
    /\ tgt_state = <<>>
    /\ tgt_rows = <<>>
    /\ tgt_unique_id = {}
    /\ validate_script = <<>>
    /\ reported_failed = <<>>
    /\ exc = "none"
    /\ attempt_log = <<>>
    /\ drop_failed = {}
    /\ issued_add = {}
    /\ add_failed = {}
    /\ fk_retries = {}
    /\ conn_faults = 0

SortIdle ==
    /\ fk_rows = <<>>
    /\ sorted_tables = <<>>
    /\ sort_pc = "idle"

ExecIdle ==
    /\ all_migration_sql = <<>>
    /\ block_i = 1
    /\ tgt_db = [committed |-> <<>>, txn |-> <<>>]
    /\ tgt_conn = "open"
    /\ executed_count = 0
    /\ failed_count = 0
    /\ execution_successful = TRUE
    /\ exec_report = "none"
    /\ exec_pc = "idle"
    /\ exec_sent = <<>>

DiffIdle ==
    /\ src_fk_map = <<>>
    /\ tgt_fk_map = <<>>
    /\ fk_not_valid = FALSE
    /\ fk_validate_sql = <<>>
    /\ migration_sql = <<>>
    /\ skipped_sql = <<>>
    /\ diff_todo = {}
    /\ diff_pc = "idle"

CmpIdle ==
    /\ obj_type = "none"
    /\ use_alter = FALSE
    /\ cmp_pc = "idle"
    /\ cmp_name = 0
    /\ src_entry = <<>>
    /\ tgt_entry = <<>>
    /\ alter_statements = <<>>
    /\ cmp_snapshot = <<>>
    /\ cmp_first = <<>>

SeqIdle ==
    /\ tgt_seq = <<>>
    /\ src_seq = <<>>
    /\ tgt_max_id = <<>>
    /\ seq_todo = <<>>
    /\ seq_tx = "open"
    /\ seq_pc = "idle"
    /\ seq_before = <<>>
    /\ seq_log = <<>>

MainIdle ==
    /\ args = <<>>
    /\ files = <<>>
    /\ caller = "none"
    /\ call_keywords = {}
    /\ server_up = TRUE
    /\ source_config = <<>>
    /\ target_config = <<>>
    /\ connect_calls = <<>>
    /\ schema_executed = FALSE
    /\ data_phases = <<>>
    /\ remaining_failed = FALSE
    /\ printed = <<>>
    /\ raised = "none"
    /\ exit_status = <<>>
    /\ main_pc = "idle"

(***************************************************************************)
(* The state when the connection pool has been created (dataMig.py:244-282)*)
(* A fresh target has validated foreign keys and no rows; a target left by *)
(* a previous run has its foreign keys NOT VALID and some rows loaded.     *)
(***************************************************************************)
EngineInit ==
    \E prior_run \in BOOLEAN, no_id \in SUBSET {"t3"} :
        /\ pc = "drop"
        /\ tgt_fks = {FkEntry(i, ~prior_run) : i \in 1..NumFKs}
        /\ fks_at_start = tgt_fks
        /\ fks = <<>>
        /\ dropped_fks = <<>>
        /\ batch_i = 0
        /\ attempt = 1
        /\ remaining_tables = SelectSeq(src_tables_meta, LAMBDA t : t \notin SKIP_TABLES)
        /\ next_round = <<>>
        /\ work_queue = <<>>
        /\ task = [t \in Tables |-> "idle"]
        /\ conn_idx = <<>>
        /\ result = [t \in Tables |-> "-"]
        /\ available_connections = [k \in 1..MAX_WORKERS |-> k - 1]
        /\ src_state = [s \in Slots |-> "open"]
        /\ tgt_state = [s \in Slots |-> "open"]
        /\ tgt_rows = [t \in Tables |->
                         [i \in RowIds |-> IF prior_run /\ i = 1 /\ i \in src_rows(t)
                                           THEN 1 ELSE 0]]
        /\ tgt_unique_id = Tables \ no_id
        /\ validate_script = <<>>
        /\ reported_failed = <<>>
        /\ exc = "none"
        /\ attempt_log = [t \in Tables |-> <<>>]
        /\ drop_failed = {}
        /\ issued_add = {}
        /\ add_failed = {}
        /\ fk_retries = {}
        /\ conn_faults = 0

(***************************************************************************)
(* drop_all_foreign_keys(connection_pool[0][1])                            *)
(***************************************************************************)

\* The query of get_all_foreign_keys succeeds; with no constraint the
\* function returns [] at once.
DropStart ==
    /\ pc = "drop"
    /\ fks' = get_all_foreign_keys(tgt_fks)
    /\ IF fks' = <<>>
       THEN /\ dropped_fks' = <<>>
            /\ pc' = "load"
       ELSE /\ dropped_fks' = dropped_fks
            /\ pc' = "drop_batches"
    /\ batch_i' = 0
    /\ UNCHANGED <<tgt_fks, tgt_rows, loadVars, connVars, fkLog, outVars, fixedVars>>

\* The query raises: nothing catches it before the finally of
\* run_data_migration_parallel.
DropRaises ==
    /\ pc = "drop"
    /\ exc' = "drop_all_foreign_keys"
    /\ pc' = "close"
    /\ UNCHANGED <<tgt_fks, fks, dropped_fks, batch_i, tgt_rows, loadVars, connVars,
                   fkLog, validate_script, reported_failed, fixedVars>>

\* One turn of the batch loop.  busy1 are the statements that fail (lock
\* timeout) in the batch pass, busy2 those that fail in the one-by-one retry,
\* which is run only when the batch pass failed and was rolled back.
DropBatch ==
    /\ pc = "drop_batches"
    /\ batch_i < Len(fks)
    /\ LET batch == Batch(fks, batch_i)
           idx == 1..Len(batch)
       IN \E busy1 \in SUBSET idx, busy2 \in SUBSET idx :
            /\ busy1 = {} => busy2 = {}
            /\ LET dropped == IF busy1 = {} THEN idx ELSE retry_one_by_one(idx, busy2)
                   DropEach[k \in 0..Len(batch)] ==
                       IF k = 0 THEN tgt_fks
                       ELSE IF k \in dropped
                            THEN ExecDrop(DropEach[k - 1], drop_sql(batch[k]))
                            ELSE DropEach[k - 1]
               IN /\ tgt_fks' = DropEach[Len(batch)]
                  /\ drop_failed' = drop_failed \cup {FkKey(batch[k]) : k \in busy2}
                  /\ fk_retries' = fk_retries \cup
                        (IF busy1 = {} THEN {}
                         ELSE {[phase |-> "drop", batch |-> batch_i,
                                retried |-> {FkKey(batch[k]) : k \in idx},
                                skipped |-> {FkKey(batch[k]) : k \in busy2}]})
    /\ batch_i' = batch_i + BATCH_SIZE
    /\ UNCHANGED <<pc, fks, dropped_fks, tgt_rows, loadVars, connVars, issued_add,
                   add_failed, outVars, fixedVars>>

\* return fks
DropDone ==
    /\ pc = "drop_batches"
    /\ batch_i >= Len(fks)
    /\ dropped_fks' = fks
    /\ pc' = "load"
    /\ fk_retries' = {}
    /\ UNCHANGED <<tgt_fks, fks, batch_i, tgt_rows, loadVars, connVars, drop_failed,
                   issued_add, add_failed, outVars, fixedVars>>

(***************************************************************************)
(* The retry rounds (dataMig.py:312-348) and the workers.                  *)
(***************************************************************************)

\* The head of a round: leave the loop, or submit every remaining table.
StartRound ==
    /\ pc = "load"
    /\ IF attempt <= max_total_attempts /\ remaining_tables # <<>>
       THEN /\ next_round' = <<>>
            /\ work_queue' = remaining_tables
            /\ pc' = "wait"
       ELSE /\ pc' = "restore"
            /\ UNCHANGED <<next_round, work_queue>>
    /\ UNCHANGED <<tgt_fks, fks, dropped_fks, batch_i, tgt_rows, attempt,
                   remaining_tables, task, conn_idx, result, available_connections,
                   attempt_log, connVars, fkLog, outVars, fixedVars>>

\* The tasks a thread of the executor is running.
RunningUnbounded == {}
Running == {u \in Tables : task[u] \in {"started", "holding"}}

\* A thread of the executor takes the oldest submitted task; the executor
\* has at most MAX_WORKERS threads.
Dequeue(t) ==
    /\ pc = "wait"
    /\ work_queue # <<>>
    /\ Head(work_queue) = t
    /\ Cardinality(Running) < MAX_WORKERS
    /\ work_queue' = Tail(work_queue)
    /\ task' = [task EXCEPT ![t] = "started"]
    /\ UNCHANGED <<pc, tgt_fks, fks, dropped_fks, batch_i, tgt_rows, attempt,
                   remaining_tables, next_round, conn_idx, result,
                   available_connections, attempt_log, connVars, fkLog, outVars,
                   fixedVars>>

\* get_conn_from_pool, under pool_lock: pop the first free index, or None.
get_conn_from_pool_without_pop(t) ==
    /\ conn_idx' = (t :> (IF available_connections # <<>>
                          THEN Head(available_connections) ELSE None)) @@ conn_idx
    /\ available_connections' = available_connections
get_conn_from_pool(t) ==
    IF available_connections # <<>>
    THEN /\ conn_idx' = (t :> Head(available_connections)) @@ conn_idx
         /\ available_connections' = Tail(available_connections)
    ELSE /\ conn_idx' = (t :> None) @@ conn_idx
         /\ available_connections' = available_connections

\* return_conn_to_pool, under pool_lock.
return_conn_nowhere(t) ==
    /\ available_connections' = available_connections
    /\ conn_idx' = [u \in DOMAIN conn_idx \ {t} |-> conn_idx[u]]
return_conn_to_pool(t) ==
    /\ available_connections' = Append(available_connections, conn_idx[t])
    /\ conn_idx' = [u \in DOMAIN conn_idx \ {t} |-> conn_idx[u]]

\* migrate_table_worker, first line.
WorkerGetConn(t) ==
    /\ task[t] = "started"
    /\ get_conn_from_pool(t)
    /\ task' = [task EXCEPT ![t] = "holding"]
    /\ UNCHANGED <<pc, tgt_fks, fks, dropped_fks, batch_i, tgt_rows, attempt,
                   remaining_tables, next_round, work_queue, result, attempt_log,
                   connVars, fkLog, outVars, fixedVars>>

(***************************************************************************)
(* migrate_single_table_with_conn on the slot the worker holds.  The       *)
(* outcome is "True" (returned True, None), "False" (returned False, msg)  *)
(* or "raised" (the rollback in the except clause raised).                 *)
(***************************************************************************)
\* What every outcome shares: the finally of migrate_table_worker returns
\* the slot, and the future completes with the outcome.
Finish(t, outcome, logged) ==
    /\ return_conn_to_pool(t)
    /\ result' = [result EXCEPT ![t] = outcome]
    /\ attempt_log' = [attempt_log EXCEPT ![t] = Append(@, logged)]
    /\ task' = [task EXCEPT ![t] = "completed"]

\* The with statement raises before any query: src_conn is None (no slot
\* was free), or tgt_conn.cursor() is asked of a closed connection.  The
\* rollback in the except clause raises again, out of the worker.
MigrateRaisesAtCursor(t) ==
    /\ task[t] = "holding"
    /\ \/ conn_idx[t] = None
       \/ tgt_state[conn_idx[t]] = "closed"
    /\ Finish(t, "raised", "raised")
    /\ UNCHANGED <<pc, tgt_fks, fks, dropped_fks, batch_i, tgt_rows, attempt,
                   remaining_tables, next_round, work_queue,
                   connVars, fkLog, outVars, fixedVars>>

\* The SELECT on the source fails: at once when the source connection is in
\* a failed transaction, or by an error of its own, which leaves the source
\* transaction failed (only the target is rolled back).
MigrateReadFails(t) ==
    /\ task[t] = "holding"
    /\ conn_idx[t] # None
    /\ tgt_state[conn_idx[t]] = "open"
    /\ IF src_state[conn_idx[t]] = "failed"
       THEN UNCHANGED <<src_state, conn_faults>>
       ELSE /\ conn_faults < MaxConnFaults
            /\ conn_faults' = conn_faults + 1
            /\ src_state' = [src_state EXCEPT ![conn_idx[t]] = "failed"]
    /\ Finish(t, "False", "False")
    /\ UNCHANGED <<pc, tgt_fks, fks, dropped_fks, batch_i, tgt_rows, attempt,
                   remaining_tables, next_round, work_queue,
                   tgt_state, fkLog, outVars, fixedVars>>

\* The SELECT returns no row: "No data, skipped".
MigrateNoData(t) ==
    /\ task[t] = "holding"
    /\ conn_idx[t] # None
    /\ tgt_state[conn_idx[t]] = "open"
    /\ src_state[conn_idx[t]] = "open"
    /\ src_rows(t) = {}
    /\ Finish(t, "True", "True")
    /\ UNCHANGED <<pc, tgt_fks, fks, dropped_fks, batch_i, tgt_rows, attempt,
                   remaining_tables, next_round, work_queue,
                   connVars, fkLog, outVars, fixedVars>>

\* executemany and commit succeed.  ON CONFLICT (id) needs a unique index
\* on id, without which the statement is an error.
MigrateInserts(t) ==
    /\ task[t] = "holding"
    /\ conn_idx[t] # None
    /\ tgt_state[conn_idx[t]] = "open"
    /\ src_state[conn_idx[t]] = "open"
    /\ src_rows(t) # {}
    /\ t \in tgt_unique_id
    /\ tgt_rows' = [tgt_rows EXCEPT ![t] = executemany(@, src_rows(t))]
    /\ Finish(t, "True", "True")
    /\ UNCHANGED <<pc, tgt_fks, fks, dropped_fks, batch_i, attempt,
                   remaining_tables, next_round, work_queue,
                   connVars, fkLog, outVars, fixedVars>>

\* executemany or commit raises on a live connection (no unique index on id,
\* a constraint still enforced, a lock timeout, ...): rolled back.
MigrateInsertFailsAfterCommit(t) ==
    /\ task[t] = "holding"
    /\ conn_idx[t] # None
    /\ tgt_state[conn_idx[t]] = "open"
    /\ src_state[conn_idx[t]] = "open"
    /\ src_rows(t) # {}
    /\ tgt_rows' = [tgt_rows EXCEPT ![t] = executemany_without_conflict_clause(@, src_rows(t))]
    /\ Finish(t, "False", "False")
    /\ UNCHANGED <<pc, tgt_fks, fks, dropped_fks, batch_i, attempt,
                   remaining_tables, next_round, work_queue,
                   connVars, fkLog, outVars, fixedVars>>
MigrateInsertFails(t) ==
    /\ task[t] = "holding"
    /\ conn_idx[t] # None
    /\ tgt_state[conn_idx[t]] = "open"
    /\ src_state[conn_idx[t]] = "open"
    /\ src_rows(t) # {}
    /\ Finish(t, "False", "False")
    /\ UNCHANGED <<pc, tgt_fks, fks, dropped_fks, batch_i, tgt_rows, attempt,
                   remaining_tables, next_round, work_queue,
                   connVars, fkLog, outVars, fixedVars>>

\* The target connection is lost during executemany or commit: the
\* statement raises, and tgt_conn.rollback() raises on the closed connection.
\* A connection lost during commit may have committed the rows.
MigrateTargetLost(t) ==
    /\ task[t] = "holding"
    /\ conn_idx[t] # None
    /\ tgt_state[conn_idx[t]] = "open"
    /\ src_state[conn_idx[t]] = "open"
    /\ src_rows(t) # {}
    /\ conn_faults < MaxConnFaults
    /\ conn_faults' = conn_faults + 1
    /\ tgt_state' = [tgt_state EXCEPT ![conn_idx[t]] = "closed"]
    /\ \/ /\ tgt_rows' = tgt_rows
          /\ Finish(t, "raised", "raised")
       \/ /\ t \in tgt_unique_id
          /\ tgt_rows' = [tgt_rows EXCEPT ![t] = executemany(@, src_rows(t))]
          /\ Finish(t, "raised", "raised after commit")
    /\ UNCHANGED <<pc, tgt_fks, fks, dropped_fks, batch_i, attempt,
                   remaining_tables, next_round, work_queue,
                   src_state, fkLog, outVars, fixedVars>>

\* One turn of the as_completed loop, for a future that is complete.
ProcessResultAlwaysRetries(t) ==
    /\ pc = "wait"
    /\ task[t] = "completed"
    /\ next_round' = Append(next_round, t)
    /\ result' = [result EXCEPT ![t] = "-"]
    /\ task' = [task EXCEPT ![t] = "idle"]
    /\ UNCHANGED <<pc, tgt_fks, fks, dropped_fks, batch_i, tgt_rows, attempt,
                   remaining_tables, work_queue, conn_idx, available_connections,
                   attempt_log, connVars, fkLog, outVars, fixedVars>>
ProcessResult(t) ==
    /\ pc = "wait"
    /\ task[t] = "completed"
    /\ next_round' = IF result[t] = "True" THEN next_round ELSE Append(next_round, t)
    /\ result' = [result EXCEPT ![t] = "-"]
    /\ task' = [task EXCEPT ![t] = "idle"]
    /\ UNCHANGED <<pc, tgt_fks, fks, dropped_fks, batch_i, tgt_rows, attempt,
                   remaining_tables, work_queue, conn_idx, available_connections,
                   attempt_log, connVars, fkLog, outVars, fixedVars>>

\* Every future of the round has been seen: remaining_tables = next_round.
EndRoundWithoutWaiting ==
    /\ pc = "wait"
    /\ remaining_tables' = next_round
    /\ attempt' = attempt + 1
    /\ pc' = "load"
    /\ UNCHANGED <<tgt_fks, fks, dropped_fks, batch_i, tgt_rows, next_round,
                   work_queue, task, conn_idx, result, available_connections,
                   attempt_log, connVars, fkLog, outVars, fixedVars>>
EndRoundOnEmptyQueue ==
    /\ pc = "wait"
    /\ work_queue = <<>>
    /\ remaining_tables' = next_round
    /\ attempt' = attempt + 1
    /\ pc' = "load"
    /\ UNCHANGED <<tgt_fks, fks, dropped_fks, batch_i, tgt_rows, next_round,
                   work_queue, task, conn_idx, result, available_connections,
                   attempt_log, connVars, fkLog, outVars, fixedVars>>
EndRound ==
    /\ pc = "wait"
    /\ work_queue = <<>>
    /\ \A t \in Tables : task[t] = "idle"
    /\ remaining_tables' = next_round
    /\ attempt' = attempt + 1
    /\ pc' = "load"
    /\ UNCHANGED <<tgt_fks, fks, dropped_fks, batch_i, tgt_rows, next_round,
                   work_queue, task, conn_idx, result, available_connections,
                   attempt_log, connVars, fkLog, outVars, fixedVars>>

(***************************************************************************)
(* recreate_foreign_keys_not_valid(connection_pool[0][1], dropped_fks)     *)
(***************************************************************************)

\* Nothing to recreate: return.  Otherwise conn.cursor(), which raises on a
\* closed connection; nothing catches that before the finally.
RestoreStart ==
    /\ pc = "restore"
    /\ IF dropped_fks # <<>> /\ tgt_state[fk_slot] = "closed"
       THEN /\ exc' = "recreate_foreign_keys_not_valid"
            /\ pc' = "close"
       ELSE /\ exc' = exc
            /\ pc' = IF dropped_fks = <<>> THEN "close" ELSE "restore_batches"
    /\ batch_i' = 0
    /\ UNCHANGED <<tgt_fks, fks, dropped_fks, tgt_rows, loadVars, connVars, fkLog,
                   validate_script, reported_failed, fixedVars>>

\* One turn of the batch loop.  A statement fails when it cannot succeed
\* (AddMustFail) or on a lock timeout (busy1 in the batch pass, busy2 in the
\* one-by-one retry).  The batch pass stops at its first failure and is
\* rolled back; the retry commits each statement on its own.
RestoreBatch ==
    /\ pc = "restore_batches"
    /\ batch_i < Len(dropped_fks)
    /\ LET batch == Batch(dropped_fks, batch_i)
           idx == 1..Len(batch)
           must == {k \in idx : AddMustFail(tgt_fks, add_sql(batch[k]))}
       IN \E busy1 \in SUBSET idx, busy2 \in SUBSET idx :
            /\ (busy1 \cup must) = {} => busy2 = {}
            /\ LET fail1 == busy1 \cup must
                   first == CHOOSE k \in fail1 : \A j \in fail1 : k <= j
                   fail2 == IF fail1 = {} THEN {} ELSE busy2 \cup must
                   added == IF fail1 = {} THEN idx ELSE retry_one_by_one(idx, fail2)
                   AddEach[k \in 0..Len(batch)] ==
                       IF k = 0 THEN tgt_fks
                       ELSE IF k \in added
                            THEN ExecAdd(AddEach[k - 1], add_sql(batch[k]))
                            ELSE AddEach[k - 1]
               IN /\ tgt_fks' = AddEach[Len(batch)]
                  /\ issued_add' = issued_add \cup {add_sql(batch[k]) : k \in idx}
                  /\ add_failed' = add_failed
                        \cup {FkKey(batch[k]) : k \in fail2}
                        \cup (IF fail1 = {} THEN {} ELSE {FkKey(batch[first])})
                  /\ fk_retries' = fk_retries \cup
                        (IF fail1 = {} THEN {}
                         ELSE {[phase |-> "restore", batch |-> batch_i,
                                retried |-> {FkKey(batch[k]) : k \in idx},
                                skipped |-> {FkKey(batch[k]) : k \in fail2}]})
    /\ batch_i' = batch_i + BATCH_SIZE
    /\ UNCHANGED <<pc, fks, dropped_fks, tgt_rows, loadVars, connVars, drop_failed,
                   outVars, fixedVars>>

RestoreDone ==
    /\ pc = "restore_batches"
    /\ batch_i >= Len(dropped_fks)
    /\ pc' = "close"
    /\ fk_retries' = {}
    /\ UNCHANGED <<tgt_fks, fks, dropped_fks, batch_i, tgt_rows, loadVars, connVars,
                   drop_failed, issued_add, add_failed, outVars, fixedVars>>

\* finally: close every connection of the pool; an exception on its way
\* then leaves run_data_migration_parallel.
ClosePool ==
    /\ pc = "close"
    /\ src_state' = [s \in Slots |-> "closed"]
    /\ tgt_state' = [s \in Slots |-> "closed"]
    /\ UNCHANGED conn_faults
    /\ pc' = IF exc = "none" THEN "script" ELSE "raised"
    /\ UNCHANGED <<tgt_fks, fks, dropped_fks, batch_i, tgt_rows, loadVars, fkLog,
                   outVars, fixedVars>>

\* generate_validate_script(dropped_fks): no file without constraints.
generate_validate_script(recorded) ==
    [k \in 1..Len(recorded) |->
        <<"ALTER TABLE", recorded[k][1], "VALIDATE CONSTRAINT", recorded[k][2]>>]
GenerateScript ==
    /\ pc = "script"
    /\ validate_script' = generate_validate_script(dropped_fks)
    /\ pc' = "report"
    /\ UNCHANGED <<tgt_fks, fks, dropped_fks, batch_i, tgt_rows, loadVars, connVars,
                   fkLog, reported_failed, exc, fixedVars>>

\* The closing report: the tables still in remaining_tables.
Report ==
    /\ pc = "report"
    /\ reported_failed' = remaining_tables
    /\ pc' = "done"
    /\ UNCHANGED <<tgt_fks, fks, dropped_fks, batch_i, tgt_rows, loadVars, connVars,
                   fkLog, validate_script, exc, fixedVars>>

EngineNext ==
    \/ DropStart
    \/ DropRaises
    \/ DropBatch
    \/ DropDone
    \/ StartRound
    \/ \E t \in Tables :
         \/ Dequeue(t)
         \/ WorkerGetConn(t)
         \/ MigrateRaisesAtCursor(t)
         \/ MigrateReadFails(t)
         \/ MigrateNoData(t)
         \/ MigrateInserts(t)
         \/ MigrateInsertFails(t)
         \/ MigrateTargetLost(t)
         \/ ProcessResult(t)
    \/ EndRound
    \/ RestoreStart
    \/ RestoreBatch
    \/ RestoreDone
    \/ ClosePool
    \/ GenerateScript
    \/ Report

Init == EngineInit /\ SortIdle /\ ExecIdle /\ DiffIdle /\ CmpIdle /\ SeqIdle /\ MainIdle
Next == EngineNext
Spec == Init /\ [][Next]_vars

(***************************************************************************)
(* Properties of the data-migration engine.                                *)
(***************************************************************************)
Last(q) == q[Len(q)]
Succeeded(outcome) == outcome = "True"
\* The retry loop has been left in the normal way.
LoopLeft == pc \in {"restore", "restore_batches", "script", "report", "done"}
               \/ (pc = "close" /\ exc = "none")
Recorded == get_all_foreign_keys(fks_at_start)

\* C1: every table outside the skip set is attempted at most
\* max_total_attempts times (a skipped table never), no attempt follows a
\* successful one, and once the loop is left a table is in the failed list
\* (remaining_tables, which the report prints) exactly when it was attempted
\* max_total_attempts times and every attempt failed.
C1_BoundedRetry ==
    \A t \in Tables :
        /\ Len(attempt_log[t]) <= max_total_attempts
        /\ t \in SKIP_TABLES => attempt_log[t] = <<>>
        /\ \A k \in 1..(Len(attempt_log[t]) - 1) : ~Succeeded(attempt_log[t][k])
        /\ LoopLeft =>
             (t \in Range(remaining_tables)
                <=> /\ t \notin SKIP_TABLES
                    /\ Len(attempt_log[t]) = max_total_attempts
                    /\ \A k \in 1..Len(attempt_log[t]) : ~Succeeded(attempt_log[t][k]))
        /\ pc = "done" => reported_failed = remaining_tables

\* A run that ended with one table permanently failed and another loaded on
\* its second attempt.
C1_Witness ==
    /\ pc = "done"
    /\ reported_failed # <<>>
    /\ \E t \in Tables : /\ Len(attempt_log[t]) = 2
                         /\ Succeeded(attempt_log[t][2])

\* C2: for a table whose target has a unique id column, once an attempt has
\* succeeded (after any number of failed ones) the target holds every source
\* row exactly once.
C2_NoDuplicateRows ==
    \A t \in tgt_unique_id :
        (attempt_log[t] # <<>> /\ Succeeded(Last(attempt_log[t])))
            => \A i \in src_rows(t) : tgt_rows[t][i] = 1

\* A table loaded on a retry, after an attempt whose rows were committed
\* although the attempt failed.
C2_Witness ==
    \E t \in tgt_unique_id :
        /\ src_rows(t) # {}
        /\ Len(attempt_log[t]) >= 2
        /\ attempt_log[t][1] = "raised after commit"
        /\ Succeeded(Last(attempt_log[t]))

\* C3: no slot of the pool is held by two workers, and a slot a worker
\* holds is not on the free list.
C3_SlotExclusive ==
    /\ \A t, u \in DOMAIN conn_idx : t # u => conn_idx[t] # conn_idx[u]
    /\ \A t \in DOMAIN conn_idx : conn_idx[t] \notin Range(available_connections)

\* Two workers hold slots at the same time while a third task waits.
C3_Witness ==
    /\ Cardinality(DOMAIN conn_idx) = 2
    /\ work_queue # <<>>

\* C4 as claimed: during the load phase no foreign key that existed when the
\* run began is on the target.
C4_AsClaimed ==
    pc \in {"load", "wait"} => CatalogKeys(tgt_fks) \cap CatalogKeys(fks_at_start) = {}

\* C4, amended: during the load phase the foreign keys on the target are
\* exactly the recorded ones whose DROP failed in the batch and again in the
\* one-by-one retry; every other recorded constraint has been dropped.
C4_DroppedUnlessFailed ==
    pc \in {"load", "wait"} =>
        /\ dropped_fks = Recorded
        /\ CatalogKeys(tgt_fks) = drop_failed
        /\ drop_failed \subseteq CatalogKeys(fks_at_start)

\* A load in progress with one constraint skipped and the others dropped.
C4_Witness ==
    /\ pc = "wait"
    /\ DOMAIN conn_idx # {}
    /\ Cardinality(drop_failed) = 1
    /\ Cardinality(tgt_fks) = 1

\* C5: every ADD CONSTRAINT statement sent names a recorded constraint, on
\* its recorded table, with its recorded definition followed by NOT VALID;
\* once the restore phase has returned every recorded constraint has had its
\* statement sent; and if none of them failed, the target's foreign keys (by
\* table and name) are those recorded before the drop.
C5_RestoreVerbatim ==
    LET expected(fk) ==
            <<"ALTER TABLE", fk[1], "ADD CONSTRAINT", fk[2]>> \o fk[3] \o <<"NOT VALID">>
        restored == exc = "none" /\ pc \in {"close", "script", "report", "done"}
    IN /\ \A stmt \in issued_add : \E fk \in Range(Recorded) : stmt = expected(fk)
       /\ restored => \A fk \in Range(Recorded) : expected(fk) \in issued_add
       /\ (restored /\ add_failed = {}) =>
              CatalogKeys(tgt_fks) = CatalogKeys(fks_at_start)

\* A finished run whose restore statements all succeeded.
C5_Witness ==
    /\ pc = "done"
    /\ issued_add # {}
    /\ add_failed = {}
    /\ Cardinality(tgt_fks) = Len(Recorded)

\* C6 as claimed, for a run that has ended: once the drop phase has
\* completed, the run ends only after the restore phase has run over every
\* recorded constraint, the pool is closed, the validate script is written
\* and the failed tables are reported.
C6_AsClaimed ==
    /\ pc = "raised" => exc = "drop_all_foreign_keys"
    /\ pc = "done" =>
          /\ \A fk \in Range(Recorded) : add_sql(fk) \in issued_add
          /\ \A s \in Slots : src_state[s] = "closed" /\ tgt_state[s] = "closed"
          /\ Len(validate_script) = Len(Recorded)
          /\ reported_failed = remaining_tables

(***************************************************************************)
(* The dependency sort: sort_tables_by_fk_dependency (dataMig.py:379-442)  *)
(* over the metadata fetch_tables_metadata (__main__.py:128-313) builds.   *)
(*                                                                         *)
(* Tables of the public schema are 1..NumSortTables, numbered in ascending *)
(* name order; every table has the columns 1 and 2.  A foreign key of a    *)
(* public table may reference a table of another schema: the query joins   *)
(* the referenced table without a schema condition (__main__.py:153,159).  *)
(***************************************************************************)
NumSortTables == 3
MaxSortFKs == 3
OtherSchemaTable == 0

SortTables == 1..NumSortTables
SortColumns == {1, 2}
FkRow == [table : SortTables,
          columns : {<<1>>, <<2>>, <<1, 2>>},
          ref_table : SortTables \cup {OtherSchemaTable}]

Max(S) == CHOOSE x \in S : \A y \in S : y <= x

\* fk_lookup[(table, column)]: the single-column rows are written in query
\* order, so the last row of a (table, column) is the one kept.
fk_lookup(rows, table, col) ==
    LET idx == {i \in DOMAIN rows : rows[i].table = table /\ rows[i].columns = <<col>>}
    IN IF idx = {} THEN None ELSE rows[Max(idx)].ref_table

\* tables_metadata: table -> column -> the table of col['foreign_key'], or
\* None when the column has no 'foreign_key' entry.
tables_metadata(rows) ==
    [t \in SortTables |-> [c \in SortColumns |-> fk_lookup(rows, t, c)]]

\* composite_fks_final holds every row, single-column ones included, table
\* by table in query order; it is kept as the sequence of its fk_info
\* entries in the dict's iteration order.
composite_fks_final(rows) == rows

\* sorted(S)
RECURSIVE sorted(_)
sorted(S) ==
    IF S = {} THEN <<>>
    ELSE LET least == CHOOSE x \in S : \A y \in S : x <= y
         IN <<least>> \o sorted(S \ {least})

\* Step 1 of the sort: one graph edge and one in_degree increment for every
\* column that has a foreign_key.
SingleColumnPass(tm) ==
    [graph |-> [p \in SortTables \cup {OtherSchemaTable} |->
                   {t \in DOMAIN tm : \E c \in DOMAIN tm[t] : tm[t][c] = p}],
     in_degree |-> [t \in DOMAIN tm |->
                   Cardinality({c \in DOMAIN tm[t] : tm[t][c] # None})]]

\* Step 2: an fk_info adds its edge, and one increment, only when the edge
\* is not in the graph yet.
RECURSIVE CompositePass(_, _, _)
CompositePass(fk_list, graph, in_degree) ==
    IF fk_list = <<>> THEN [graph |-> graph, in_degree |-> in_degree]
    ELSE LET table == Head(fk_list).table
             ref_table == Head(fk_list).ref_table
         IN IF table \notin graph[ref_table]
            THEN CompositePass(Tail(fk_list),
                               [graph EXCEPT ![ref_table] = @ \cup {table}],
                               [in_degree EXCEPT ![table] = @ + 1])
            ELSE CompositePass(Tail(fk_list), graph, in_degree)

\* The for loop over sorted(graph[current]).
RECURSIVE Release(_, _, _)
Release(dependents, queue, in_degree) ==
    IF dependents = <<>> THEN [queue |-> queue, in_degree |-> in_degree]
    ELSE LET dependent == Head(dependents)
             lowered == [in_degree EXCEPT ![dependent] = @ - 1]
         IN Release(Tail(dependents),
                    IF lowered[dependent] = 0 THEN Append(queue, dependent) ELSE queue,
                    lowered)

\* The while loop over the queue.
RECURSIVE KahnLoop(_, _, _, _)
KahnLoop(queue, sorted_so_far, graph, in_degree) ==
    IF queue = <<>> THEN sorted_so_far
    ELSE LET current == Head(queue)
             r == Release(sorted(graph[current]), Tail(queue), in_degree)
         IN KahnLoop(r.queue, Append(sorted_so_far, current), graph, r.in_degree)

\* sorted_tables when the queue has emptied.
KahnOrder(tm, cfks) ==
    LET one == SingleColumnPass(tm)
        two == CompositePass(cfks, one.graph, one.in_degree)
        independent_tables == sorted({t \in DOMAIN tm : two.in_degree[t] = 0})
    IN KahnLoop(independent_tables, <<>>, two.graph, two.in_degree)

extend_with_nothing(sorted_so_far, tables) == sorted_so_far
\* The cycle branch: the tables not sorted yet are appended in name order.
extend_with_remaining(sorted_so_far, tables) ==
    IF Len(sorted_so_far) < Cardinality(tables)
    THEN sorted_so_far \o sorted(tables \ Range(sorted_so_far))
    ELSE sorted_so_far

sort_tables_by_fk_dependency(tm, cfks) ==
    extend_with_remaining(KahnOrder(tm, cfks), DOMAIN tm)

SortInit ==
    /\ fk_rows = <<>>
    /\ sorted_tables = <<>>
    /\ sort_pc = "catalog"

\* One more foreign key in the catalog; the query returns its rows ordered
\* by table name, then constraint name.
AddForeignKey ==
    /\ sort_pc = "catalog"
    /\ Len(fk_rows) < MaxSortFKs
    /\ \E row \in FkRow :
         /\ IF fk_rows = <<>> THEN TRUE ELSE fk_rows[Len(fk_rows)].table <= row.table
         /\ fk_rows' = Append(fk_rows, row)
    /\ UNCHANGED <<sorted_tables, sort_pc, engineVars, execVars, diffVars, cmpVars,
                   seqVars, mainVars>>

\* The call; building the OrderedDict raises KeyError for a name that is
\* not a key of tables_metadata.
SortCall ==
    /\ sort_pc = "catalog"
    /\ LET tm == tables_metadata(fk_rows)
           order == sort_tables_by_fk_dependency(tm, composite_fks_final(fk_rows))
       IN IF Range(order) \subseteq DOMAIN tm
          THEN sorted_tables' = order /\ sort_pc' = "returned"
          ELSE sorted_tables' = <<>> /\ sort_pc' = "raised"
    /\ UNCHANGED <<fk_rows, engineVars, execVars, diffVars, cmpVars, seqVars,
                   mainVars>>

SortNext ==
    \/ AddForeignKey
    \/ SortCall

SortStart == EngineIdle /\ SortInit /\ ExecIdle /\ DiffIdle /\ CmpIdle /\ SeqIdle /\ MainIdle
SortSpec == SortStart /\ [][SortNext]_vars

(***************************************************************************)
(* Properties of the dependency sort.                                      *)
(***************************************************************************)
\* The position of a table in the returned order.
Position(t) == CHOOSE i \in DOMAIN sorted_tables : sorted_tables[i] = t

\* No cycle in the reference graph: the tables can be ranked so that every
\* foreign key goes from a table to one of lower rank.
Acyclic ==
    \E rank \in [SortTables -> SortTables] :
        \A i \in DOMAIN fk_rows :
            fk_rows[i].ref_table \in SortTables =>
                rank[fk_rows[i].ref_table] < rank[fk_rows[i].table]

\* C7 as claimed, for catalogs whose foreign keys all reference tables of
\* the input: when the reference graph is acyclic, every referenced table
\* comes before every table that references it in the returned order.
C7_AsClaimed ==
    (/\ sort_pc = "returned"
     /\ Acyclic
     /\ \A i \in DOMAIN fk_rows : fk_rows[i].ref_table \in SortTables)
    => \A i \in DOMAIN fk_rows :
           Position(fk_rows[i].ref_table) < Position(fk_rows[i].table)

\* C8: the call never raises; the order it returns holds every input table
\* exactly once and nothing else; it starts with the tables sorted when the
\* queue emptied, and the tables left at that point follow in ascending
\* name order.
C8_EveryTableOnce ==
    /\ sort_pc # "raised"
    /\ sort_pc = "returned" =>
          LET queued == KahnOrder(tables_metadata(fk_rows), composite_fks_final(fk_rows))
          IN /\ Len(sorted_tables) = NumSortTables
             /\ Range(sorted_tables) = SortTables
             /\ SubSeq(sorted_tables, 1, Len(queued)) = queued
             /\ \A i, j \in (Len(queued) + 1)..Len(sorted_tables) :
                    i < j => sorted_tables[i] < sorted_tables[j]

\* A returned order for a catalog with a cycle: one table was sorted by the
\* queue and at least two were left.
C8_Witness ==
    /\ sort_pc = "returned"
    /\ ~Acyclic
    /\ LET queued == KahnOrder(tables_metadata(fk_rows), composite_fks_final(fk_rows))
       IN Len(queued) >= 1 /\ Len(queued) + 2 <= Len(sorted_tables)

(***************************************************************************)
(* The migration executor: the --commit branch of main                     *)
(* (__main__.py:1961-2040).  A block is either made of comment lines only  *)
(* or holds SQL; psycopg2 opens a transaction at the first statement after *)
(* a commit or rollback.                                                   *)
(***************************************************************************)
MaxBlocks == 4

BlockKinds == {"comment", "sql"}

\* sql_content of a block is empty when every line starts with "--".
HasSqlContent(i) == all_migration_sql[i] = "sql"

\* tgt_conn.commit(), as the target sees it.
commit_nothing(db) == db
commit(db) == [committed |-> db.committed \o db.txn, txn |-> <<>>]

\* tgt_conn.rollback(), and what the server does with the open transaction
\* of an ended session.
rollback(db) == [committed |-> db.committed, txn |-> <<>>]

execOthers == <<engineVars, sortVars, diffVars, cmpVars, seqVars, mainVars>>

ExecInit ==
    \E n \in 0..MaxBlocks : \E plan \in [1..n -> BlockKinds] :
        /\ all_migration_sql = plan
        /\ block_i = 1
        /\ tgt_db = [committed |-> <<>>, txn |-> <<>>]
        /\ tgt_conn = "open"
        /\ executed_count = 0
        /\ failed_count = 0
        /\ execution_successful = TRUE
        /\ exec_report = "none"
        /\ exec_pc = "start"
        /\ exec_sent = <<>>

\* "No migration SQL to execute."
NothingToExecute ==
    /\ exec_pc = "start"
    /\ all_migration_sql = <<>>
    /\ exec_pc' = "done"
    /\ exec_report' = "nothing to execute"
    /\ UNCHANGED <<execOthers, all_migration_sql, block_i, tgt_db, tgt_conn, executed_count,
                   failed_count, execution_successful, exec_sent>>

\* The cursor is opened and the for loop entered.
EnterLoop ==
    /\ exec_pc = "start"
    /\ all_migration_sql # <<>>
    /\ exec_pc' = "loop"
    /\ UNCHANGED <<execOthers, all_migration_sql, block_i, tgt_db, tgt_conn, executed_count,
                   failed_count, execution_successful, exec_report, exec_sent>>

AtBlock == exec_pc = "loop" /\ block_i <= Len(all_migration_sql)

\* A block without SQL content: continue.
SkipCommentBlock ==
    /\ AtBlock
    /\ ~HasSqlContent(block_i)
    /\ block_i' = block_i + 1
    /\ UNCHANGED <<execOthers, all_migration_sql, tgt_db, tgt_conn, executed_count, failed_count,
                   execution_successful, exec_report, exec_pc, exec_sent>>

\* cur.execute(sql_content) returns.
ExecuteBlock ==
    /\ AtBlock
    /\ HasSqlContent(block_i)
    /\ exec_sent' = Append(exec_sent, block_i)
    /\ tgt_db' = [tgt_db EXCEPT !.txn = Append(@, block_i)]
    /\ exec_pc' = "commit"
    /\ UNCHANGED <<execOthers, all_migration_sql, block_i, tgt_conn, executed_count, failed_count,
                   execution_successful, exec_report>>

\* cur.execute raises psycopg2.Error: the handler rolls back and breaks.
ExecuteFails ==
    /\ AtBlock
    /\ HasSqlContent(block_i)
    /\ exec_sent' = Append(exec_sent, block_i)
    /\ failed_count' = failed_count + 1
    /\ tgt_db' = rollback(tgt_db)
    /\ execution_successful' = FALSE
    /\ exec_pc' = "result"
    /\ UNCHANGED <<execOthers, all_migration_sql, block_i, tgt_conn, executed_count, exec_report>>

\* cur.execute raises because the session ended: the handler's rollback
\* raises, and so does the rollback of the outer handler; the exception
\* leaves main after "Block failed" and "unexpected error" are printed.
ExecuteLosesConnection ==
    /\ AtBlock
    /\ HasSqlContent(block_i)
    /\ exec_sent' = Append(exec_sent, block_i)
    /\ failed_count' = failed_count + 1
    /\ tgt_conn' = "closed"
    /\ tgt_db' = rollback(tgt_db)
    /\ exec_report' = "unexpected error"
    /\ exec_pc' = "raised"
    /\ UNCHANGED <<execOthers, all_migration_sql, block_i, executed_count, execution_successful>>

\* tgt_conn.commit() returns.
CommitBlock ==
    /\ exec_pc = "commit"
    /\ tgt_db' = commit(tgt_db)
    /\ executed_count' = executed_count + 1
    /\ block_i' = block_i + 1
    /\ exec_pc' = "loop"
    /\ UNCHANGED <<execOthers, all_migration_sql, tgt_conn, failed_count, execution_successful,
                   exec_report, exec_sent>>

\* tgt_conn.commit() raises: the server aborted the transaction; the handler
\* rolls back and breaks.
CommitFails ==
    /\ exec_pc = "commit"
    /\ failed_count' = failed_count + 1
    /\ tgt_db' = rollback(tgt_db)
    /\ execution_successful' = FALSE
    /\ exec_pc' = "result"
    /\ UNCHANGED <<execOthers, all_migration_sql, block_i, tgt_conn, executed_count, exec_report,
                   exec_sent>>

\* The for loop is exhausted.
LoopExhausted ==
    /\ exec_pc = "loop"
    /\ block_i > Len(all_migration_sql)
    /\ exec_pc' = "result"
    /\ UNCHANGED <<execOthers, all_migration_sql, block_i, tgt_db, tgt_conn, executed_count,
                   failed_count, execution_successful, exec_report, exec_sent>>

\* The closing report, then the connections are closed.
ReportResult ==
    /\ exec_pc = "result"
    /\ exec_report' = IF execution_successful THEN "executed successfully"
                      ELSE "execution failed"
    /\ tgt_conn' = "closed"
    /\ exec_pc' = "done"
    /\ UNCHANGED <<execOthers, all_migration_sql, block_i, tgt_db, executed_count, failed_count,
                   execution_successful, exec_sent>>

ExecNext ==
    \/ NothingToExecute
    \/ EnterLoop
    \/ SkipCommentBlock
    \/ ExecuteBlock
    \/ ExecuteFails
    \/ ExecuteLosesConnection
    \/ CommitBlock
    \/ CommitFails
    \/ LoopExhausted
    \/ ReportResult

ExecStart == EngineIdle /\ SortIdle /\ ExecInit /\ DiffIdle /\ CmpIdle /\ SeqIdle /\ MainIdle
ExecSpec == ExecStart /\ [][ExecNext]_vars

(***************************************************************************)
(* Properties of the migration executor.                                   *)
(***************************************************************************)
\* The blocks with SQL content among the first n of the plan, in plan order.
SqlBlocks(n) == SelectSeq([i \in 1..n |-> i], HasSqlContent)

\* All of a sequence but its last element.
Front(q) == SubSeq(q, 1, Len(q) - 1)

NumFkKeys == 2

\* The keys "table.col->ref_table.ref_col" of the maps.
FkKeys == 1..NumFkKeys
\* What the catalogs say of the constraint under a key: its name (quoted
\* identifiers differ by case) and its ON DELETE code.
FkInfo == [constraint_name : {"fk_a", "FK_A"}, on_delete : {"a", "c"}]

get_fk_action(action_code) ==
    CASE action_code = "c" -> "CASCADE"
      [] action_code = "r" -> "RESTRICT"
      [] OTHER -> "NO ACTION"

\* The DDL extract_foreign_keys writes for a key.
fk_ddl(key, fk_info) ==
    <<"ALTER TABLE", ToString(key), "ADD CONSTRAINT", fk_info.constraint_name,
      "FOREIGN KEY">>
    \o (IF get_fk_action(fk_info.on_delete) # "NO ACTION"
        THEN <<"ON DELETE", get_fk_action(fk_info.on_delete)>> ELSE <<>>)
    \o <<";">>

extract_foreign_keys(catalog) == [key \in DOMAIN catalog |-> fk_ddl(key, catalog[key])]

\* str.lower() on one word.
lower(word) ==
    CASE word = "ALTER TABLE" -> "alter table"
      [] word = "ADD CONSTRAINT" -> "add constraint"
      [] word = "FOREIGN KEY" -> "foreign key"
      [] word = "ON DELETE" -> "on delete"
      [] word = "CASCADE" -> "cascade"
      [] word = "RESTRICT" -> "restrict"
      [] word = "NOT VALID" -> "not valid"
      [] word = "FK_A" -> "fk_a"
      [] word = "CREATE" -> "create"
      [] word = "BIGINT" -> "bigint"
      [] OTHER -> word

\* normalize_sql: lower case, then the closing semicolon is stripped.
normalize_sql(sql_text) ==
    LET processed_sql == [i \in DOMAIN sql_text |-> lower(sql_text[i])]
    IN IF processed_sql # <<>> /\ processed_sql[Len(processed_sql)] = ";"
       THEN SubSeq(processed_sql, 1, Len(processed_sql) - 1)
       ELSE processed_sql

add_not_valid_constraint(ddl) ==
    IF \E i \in DOMAIN ddl : ddl[i] = "NOT VALID" THEN ddl
    ELSE IF ddl # <<>> /\ ddl[Len(ddl)] = ";"
         THEN SubSeq(ddl, 1, Len(ddl) - 1) \o <<"NOT VALID", ";">>
         ELSE ddl \o <<"NOT VALID">>

\* "\n".join / " ".join over a list of word sequences.
RECURSIVE Join(_)
Join(parts) == IF parts = <<>> THEN <<>> ELSE Head(parts) \o Join(Tail(parts))

\* How every other object type is re-created when it differs (line 1311).
fk_block_recreating(name, ddl) ==
    [comment |-> "differs. Recreating.", name |-> name,
     statements |-> <<<<"DROP FOREIGN_KEY IF EXISTS", ToString(name), "CASCADE", ";">>, ddl>>]
\* The block of a foreign key that differs (line 1257).
fk_block_adding(name, ddl) ==
    [comment |-> "differs or missing. Adding.", name |-> name, statements |-> <<ddl>>]

diffOthers == <<engineVars, sortVars, execVars, cmpVars, seqVars, mainVars>>

DiffInit ==
    \E src_keys \in SUBSET FkKeys, tgt_keys \in SUBSET FkKeys :
    \E src_catalog \in [src_keys -> FkInfo], tgt_catalog \in [tgt_keys -> FkInfo] :
    \E not_valid \in BOOLEAN :
        /\ src_fk_map = extract_foreign_keys(src_catalog)
        /\ tgt_fk_map = extract_foreign_keys(tgt_catalog)
        /\ fk_not_valid = not_valid
        /\ fk_validate_sql = <<>>
        /\ migration_sql = <<>>
        /\ skipped_sql = <<>>
        /\ diff_todo = src_keys \ tgt_keys
        /\ diff_pc = "source only"

\* One pass of the first loop: an object of the source alone.
ProcessSourceOnly ==
    /\ diff_pc = "source only"
    /\ \E name \in diff_todo :
         LET ddl == IF fk_not_valid THEN add_not_valid_constraint(src_fk_map[name])
                    ELSE src_fk_map[name]
         IN /\ migration_sql' = Append(migration_sql,
                    [comment |-> "CREATE FOREIGN_KEY", name |-> name, statements |-> <<ddl>>])
            /\ diff_todo' = diff_todo \ {name}
    /\ UNCHANGED <<diffOthers, src_fk_map, tgt_fk_map, fk_not_valid, fk_validate_sql, skipped_sql, diff_pc>>

\* The first loop is exhausted; the second one goes over the common names.
StartBothSides ==
    /\ diff_pc = "source only"
    /\ diff_todo = {}
    /\ diff_todo' = DOMAIN src_fk_map \cap DOMAIN tgt_fk_map
    /\ diff_pc' = "both sides"
    /\ UNCHANGED <<diffOthers, src_fk_map, tgt_fk_map, fk_not_valid, fk_validate_sql, migration_sql,
                   skipped_sql>>

\* One pass of the second loop whose normalized DDLs differ.
ProcessDiffering ==
    /\ diff_pc = "both sides"
    /\ \E name \in diff_todo :
         /\ normalize_sql(src_fk_map[name]) # normalize_sql(tgt_fk_map[name])
         /\ LET ddl == IF fk_not_valid THEN add_not_valid_constraint(src_fk_map[name])
                       ELSE src_fk_map[name]
            IN migration_sql' = Append(migration_sql, fk_block_adding(name, ddl))
         /\ diff_todo' = diff_todo \ {name}
    /\ UNCHANGED <<diffOthers, src_fk_map, tgt_fk_map, fk_not_valid, fk_validate_sql, skipped_sql, diff_pc>>

\* One pass of the second loop whose normalized DDLs are equal: the source
\* DDL goes to skipped_sql, commented out.
ProcessUpToDate ==
    /\ diff_pc = "both sides"
    /\ \E name \in diff_todo :
         /\ normalize_sql(src_fk_map[name]) = normalize_sql(tgt_fk_map[name])
         /\ skipped_sql' = Append(skipped_sql,
                [comment |-> "is up-to-date; skipping.", name |-> name, statements |-> <<>>])
         /\ diff_todo' = diff_todo \ {name}
    /\ UNCHANGED <<diffOthers, src_fk_map, tgt_fk_map, fk_not_valid, fk_validate_sql, migration_sql, diff_pc>>

\* "ALTER TABLE t VALIDATE CONSTRAINT c" for each block in which the pattern
\* finds an ALTER TABLE ... ADD CONSTRAINT among the lines that are not
\* comments.
build_fk_validate_statements(migration_sql_blocks) ==
    LET \* what stands between the words of the DDL of extract_foreign_keys
        blank == " "
        \* what the pattern takes between the words: its text is the raw
        \* string r'ALTER\\s+TABLE\\s+...', in which \\ is two characters,
        \* so the expression asks for a backslash and then letters s
        between_words == {"\\s", "\\ss", "\\sss"}
        search(line) ==
            /\ Len(line) >= 4
            /\ line[1] \in {"ALTER TABLE", "alter table"}
            /\ line[3] \in {"ADD CONSTRAINT", "add constraint"}
            /\ blank \in between_words
        statement(block) ==
            LET sql_content == SelectSeq(block.statements,
                                         LAMBDA line : line = <<>> \/ line[1] # "--")
                found == {i \in DOMAIN sql_content : search(sql_content[i])}
            IN IF found = {} THEN <<>>
               ELSE LET line == sql_content[CHOOSE i \in found : \A j \in found : i <= j]
                    IN <<<<"ALTER TABLE", line[2], "VALIDATE CONSTRAINT", line[4], ";">>>>
    IN Join([b \in DOMAIN migration_sql_blocks |-> statement(migration_sql_blocks[b])])

\* Objects of the target alone are not visited; main builds the validate
\* list from the blocks returned.
ReturnDiff ==
    /\ diff_pc = "both sides"
    /\ diff_todo = {}
    /\ diff_pc' = "returned"
    /\ fk_validate_sql' = IF fk_not_valid THEN build_fk_validate_statements(migration_sql)
                          ELSE <<>>
    /\ UNCHANGED <<diffOthers, src_fk_map, tgt_fk_map, fk_not_valid, migration_sql,
                   skipped_sql, diff_todo>>

DiffNext ==
    \/ ProcessSourceOnly
    \/ StartBothSides
    \/ ProcessDiffering
    \/ ProcessUpToDate
    \/ ReturnDiff

DiffStart == EngineIdle /\ SortIdle /\ ExecIdle /\ DiffInit /\ CmpIdle /\ SeqIdle /\ MainIdle
DiffSpec == DiffStart /\ [][DiffNext]_vars

(***************************************************************************)
(* Properties of the foreign-key diff.                                     *)
(***************************************************************************)
\* The source keys that need a statement: missing on the target, or with a
\* DDL that differs from the target's once both are normalized.
MissingOrDiffering ==
    {k \in DOMAIN src_fk_map :
        \/ k \notin DOMAIN tgt_fk_map
        \/ normalize_sql(src_fk_map[k]) # normalize_sql(tgt_fk_map[k])}

\* C10: every block the foreign-key diff emits holds one statement, an
\* ALTER TABLE ... ADD CONSTRAINT of the source's constraint, and no word
\* of it is a DROP; when the diff returns, every source foreign key that is
\* missing on the target or differs from the target's has its block, and
\* no other key has one.
C10_AddOnly ==
    /\ \A b \in DOMAIN migration_sql :
          LET block == migration_sql[b]
              ddl == block.statements[1]
          IN /\ Len(block.statements) = 1
             /\ block.name \in MissingOrDiffering
             /\ ddl = IF fk_not_valid
                      THEN add_not_valid_constraint(src_fk_map[block.name])
                      ELSE src_fk_map[block.name]
             /\ ddl[1] = "ALTER TABLE" /\ ddl[3] = "ADD CONSTRAINT"
             /\ \A w \in DOMAIN ddl :
                    ddl[w] \notin {"DROP FOREIGN_KEY IF EXISTS", "DROP CONSTRAINT"}
    /\ diff_pc = "returned" =>
          /\ {migration_sql[b].name : b \in DOMAIN migration_sql} = MissingOrDiffering
          /\ Len(migration_sql) = Cardinality(MissingOrDiffering)

\* The diff has returned a block for a foreign key missing on the target
\* and a block for one that differs from the target's, whose constraint the
\* target still has.
C10_Witness ==
    /\ diff_pc = "returned"
    /\ \E b \in DOMAIN migration_sql : migration_sql[b].name \notin DOMAIN tgt_fk_map
    /\ \E b \in DOMAIN migration_sql : migration_sql[b].name \in DOMAIN tgt_fk_map

(***************************************************************************)
(* compare_and_generate_migration for enums, tables, sequences, views,     *)
(* functions and indexes (__main__.py:991-1337).  The two for loops read   *)
(* src_data and tgt_data one name at a time and name by name, so the       *)
(* entries of a name are drawn when its pass begins.  A block of           *)
(* migration_sql is its comment line, the name it is about and its lines;  *)
(* a line is a sequence of words, a comment line starting with "--".       *)
(***************************************************************************)
MaxObjects == 2

ObjTypes == {"TYPE", "TABLE", "SEQUENCE", "VIEW", "FUNCTION", "INDEX"}

\* col['default'] of a column without a default expression.
NoDefault == "None"

\* The column dicts of fetch_tables_metadata: column c1 is a number without
\* default, column c2 a NOT NULL string with a default.
ColumnDicts(col_name) ==
    IF col_name = "c1"
    THEN [name : {"c1"}, type : {"integer", "bigint"}, nullable : BOOLEAN,
          default : {NoDefault}]
    ELSE [name : {"c2"}, type : {"character varying(50)", "character varying(100)"},
          nullable : {FALSE}, default : {"'x'", "'y'"}]

\* A table: its columns in ordinal order and its composite UNIQUE
\* constraints (src_composite_uniques[name]); the one composite constraint
\* spans both columns of a table of integer c1 and 50 character c2.  The
\* default of c2 varies in the tables that have c2 alone.
TableEntries ==
    LET one == {<<c>> : c \in ColumnDicts("c1")}
               \cup {<<c>> : c \in {d \in ColumnDicts("c2") : d.type = "character varying(50)"}}
        two == {<<c, d>> : c \in ColumnDicts("c1"),
                           d \in {e \in ColumnDicts("c2") : e.default = "'x'"}}
        constrained == {l \in two : /\ l[1].type = "integer" /\ ~l[1].nullable
                                    /\ l[2].type = "character varying(50)"}
    IN [columns : one \cup two, composite_uniques : {<<>>}]
       \cup [columns : constrained, composite_uniques : {<<<<"uq", "c1", "c2">>>>}]

\* What the fetch functions return for an object of each type: an enum is
\* its labels in declaration order; a sequence is its is_called and
\* last_value; a view, function or index is its DDL text.
Entries(type) ==
    CASE type = "TABLE" -> TableEntries
      [] type = "TYPE" -> [labels : {<<>>, <<1>>, <<1, 2>>, <<2, 1>>}]
      [] type = "SEQUENCE" -> [is_called : BOOLEAN, last_value : {"1", "2"}]
      [] OTHER -> [ddl : {<<"CREATE", "x">>, <<"create", "x">>, <<"CREATE", "y">>}]

\* fetch_enums_values: the labels of an enum, sorted.
enum_values(entry) == sorted({entry.labels[i] : i \in DOMAIN entry.labels})

\* fetch_enums: the join with pg_enum yields a DDL only for an enum that has
\* labels, so src_enum_ddls.get(name, default) is the default without any.
enum_ddl(name, entry, default) ==
    IF entry.labels = <<>> THEN default
    ELSE <<"CREATE TYPE", ToString(name), "AS ENUM">>
         \o [i \in DOMAIN entry.labels |-> ToString(entry.labels[i])]

\* fetch_sequences: RESTART WITH is written only for a sequence that was
\* called.
sequence_ddl(name, entry) ==
    <<"CREATE SEQUENCE", ToString(name)>>
    \o (IF entry.is_called THEN <<"RESTART WITH", entry.last_value>> ELSE <<>>)
    \o <<";">>

generate_create_table_ddl(table_name, columns, composite_uniques) ==
    LET col_def(col) ==
            <<col.name, col.type>>
            \o (IF col.default # NoDefault THEN <<"DEFAULT", col.default>> ELSE <<>>)
            \o (IF ~col.nullable THEN <<"NOT NULL">> ELSE <<>>)
        table_constraint(u) == <<"CONSTRAINT", u[1], "UNIQUE", u[2], u[3]>>
    IN <<"CREATE TABLE", ToString(table_name)>>
       \o Join([i \in DOMAIN columns |-> col_def(columns[i])])
       \o Join([i \in DOMAIN composite_uniques |-> table_constraint(composite_uniques[i])])

is_safe_type_change(old_type, new_type) ==
    LET old_type_norm == lower(old_type)
        new_type_norm == lower(new_type)
        varchar(t) == t \in {"character varying", "character varying(50)",
                             "character varying(100)"}
        \* the number between the brackets; float('inf') when there is none
        len(t) == CASE t = "character varying(50)" -> 50
                    [] t = "character varying(100)" -> 100
                    [] OTHER -> 1000000
    IN IF varchar(old_type_norm) /\ (varchar(new_type_norm) \/ new_type_norm = "text")
       THEN len(new_type_norm) >= len(old_type_norm) \/ new_type_norm = "text"
       ELSE IF old_type_norm = "smallint" /\ new_type_norm \in {"integer", "bigint"}
       THEN TRUE
       ELSE IF old_type_norm = "integer" /\ new_type_norm = "bigint"
       THEN TRUE
       ELSE IF /\ old_type_norm \in {"smallint", "integer", "bigint", "numeric", "real",
                                     "double precision"}
               /\ (varchar(new_type_norm) \/ new_type_norm = "text")
       THEN TRUE
       ELSE FALSE

\* The loop over cols_to_compare, in the order the set yields them; it
\* breaks at the first change an ALTER cannot make.
RECURSIVE CompareColumns(_, _, _, _, _)
CompareColumns(name, src_cols_map, tgt_cols_map, cols, statements) ==
    IF cols = <<>> THEN [needs_recreate |-> FALSE, alter_statements |-> statements]
    ELSE LET src_col == src_cols_map[Head(cols)]
             tgt_col == tgt_cols_map[Head(cols)]
             src_type_norm == lower(src_col.type)
             tgt_type_norm == lower(tgt_col.type)
             table == <<"ALTER TABLE", ToString(name), "ALTER COLUMN", Head(cols)>>
             next(more) == CompareColumns(name, src_cols_map, tgt_cols_map, Tail(cols),
                                          statements \o more)
             break == [needs_recreate |-> TRUE, alter_statements |-> statements]
         IN IF src_type_norm # tgt_type_norm
            THEN IF use_alter /\ is_safe_type_change(tgt_type_norm, src_type_norm)
                 THEN next(<<table \o <<"TYPE", src_col.type>>>>)
                 ELSE break
            ELSE IF src_col.nullable # tgt_col.nullable
            THEN IF use_alter
                 THEN IF ~src_col.nullable
                      THEN next(<<<<"--", "WARNING: Setting NOT NULL on column", Head(cols)>>,
                                  table \o <<"SET NOT NULL">>>>)
                      ELSE next(<<table \o <<"DROP NOT NULL">>>>)
                 ELSE break
            ELSE next(<<>>)

no_skip_entries(name, original_ddl) == <<>>

\* The final branch for an object that is up-to-date: the header entry and,
\* when there is a DDL, the entry of its commented lines.
skip_entries(name, original_ddl) ==
    <<[comment |-> "is up-to-date; skipping.", name |-> name, statements |-> <<>>]>>
    \o (IF original_ddl = <<>> THEN <<>>
        ELSE <<[comment |-> "", name |-> name, statements |-> <<<<"--">> \o original_ddl>>]>>)

alters_kept_at_recreate(statements) == statements

\* alter_statements after the branch that decides to recreate the table.
alters_after_recreate(statements) == <<>>

\* The TABLE branch for one table on both sides, with alter_statements as
\* the passes before left it.  order is the order in which the column-name
\* sets of this pass yield their elements.
compare_table(name, src, tgt, order, statements) ==
    LET src_col_names == {src.columns[i].name : i \in DOMAIN src.columns}
        tgt_col_names == {tgt.columns[i].name : i \in DOMAIN tgt.columns}
        src_cols_map == [n \in src_col_names |->
                           src.columns[CHOOSE i \in DOMAIN src.columns :
                                          src.columns[i].name = n]]
        tgt_cols_map == [n \in tgt_col_names |->
                           tgt.columns[CHOOSE i \in DOMAIN tgt.columns :
                                          tgt.columns[i].name = n]]
        cols_to_add == src_col_names \ tgt_col_names
        cols_to_drop == tgt_col_names \ src_col_names
        cols_to_compare == src_col_names \cap tgt_col_names
        in_order(S) == SelectSeq(order, LAMBDA n : n \in S)
        table == <<"ALTER TABLE", ToString(name)>>
        compared ==
            IF cols_to_compare = {} /\ (cols_to_add # {} \/ cols_to_drop # {})
            THEN [needs_recreate |-> TRUE, alter_statements |-> statements]
            ELSE CompareColumns(name, src_cols_map, tgt_cols_map,
                                in_order(cols_to_compare), statements)
        add_column(n) ==
            table \o <<"ADD COLUMN", n, src_cols_map[n].type>>
            \o (IF src_cols_map[n].default # NoDefault
                THEN <<"DEFAULT", src_cols_map[n].default>> ELSE <<>>)
            \o (IF ~src_cols_map[n].nullable THEN <<"NOT NULL">> ELSE <<>>)
        drop_column(n) ==
            <<<<"--", "WARNING: Dropping column", n, "may cause data loss.">>,
              table \o <<"DROP COLUMN", n>>>>
        adds == LET cols == in_order(cols_to_add)
                IN [i \in DOMAIN cols |-> add_column(cols[i])]
        drops == LET cols == in_order(cols_to_drop)
                 IN Join([i \in DOMAIN cols |-> drop_column(cols[i])])
        altering == ~compared.needs_recreate /\ use_alter
        altered == IF altering THEN compared.alter_statements \o adds \o drops
                   ELSE compared.alter_statements
        zip_differs ==
            \/ Cardinality(src_col_names) # Cardinality(tgt_col_names)
            \/ \E i \in 1..Min(Len(src.columns), Len(tgt.columns)) :
                  \/ src.columns[i].name # tgt.columns[i].name
                  \/ lower(src.columns[i].type) # lower(tgt.columns[i].type)
                  \/ src.columns[i].nullable # tgt.columns[i].nullable
        recreating == compared.needs_recreate \/ (~use_alter /\ zip_differs)
        left == IF recreating THEN alters_after_recreate(altered) ELSE altered
        are_different == recreating \/ (altering /\ altered # <<>>)
        ddl == generate_create_table_ddl(name, src.columns, src.composite_uniques)
    IN [alter_statements |-> left,
        migration |->
            (IF altering /\ altered # <<>>
             THEN <<[comment |-> "ALTER TABLE for column changes", name |-> name,
                     statements |-> altered]>>
             ELSE <<>>)
            \o (IF are_different /\ left = <<>>
                THEN <<[comment |-> "differs significantly. Recreating.", name |-> name,
                        statements |-> <<<<"DROP", "TABLE", "IF EXISTS", ToString(name),
                                           "CASCADE">>, ddl>>]>>
                ELSE <<>>),
        skipped |->
            IF ~are_different /\ left = <<>>
            THEN skip_entries(name, ddl)
            ELSE <<>>]

create_only_block(type, name, action, ddl) ==
    [comment |-> action, name |-> name, statements |-> <<ddl>>]

\* The final branch for an object other than a table that differs.
recreate_block(type, name, action, ddl) ==
    [comment |-> action, name |-> name,
     statements |-> <<<<"DROP", type, "IF EXISTS", ToString(name), "CASCADE">>, ddl>>]

index_drop_create(name, ddl) ==
    <<"DROP", "INDEX", "IF EXISTS", ToString(name), ";">> \o ddl

\* The DO block that runs a CREATE INDEX only when no index has the name.
index_do_block(name, ddl) ==
    <<"DO", "IF NOT EXISTS", "indexname =", ToString(name), "THEN">> \o ddl \o <<"END IF">>

\* One pass of the loop over the names on both sides, for an object that is
\* not a table: what it appends to migration_sql and to skipped_sql.
compare_other(type, name, src, tgt) ==
    LET one_skip(ddl) == <<[comment |-> "is up-to-date; skipping.", name |-> name,
                            statements |-> <<<<"--">> \o ddl>>]>>
        recreate(action, ddl) == <<recreate_block(type, name, action, ddl)>>
        appended(m, s) == [migration |-> m, skipped |-> s]
    IN CASE type = "INDEX" ->
              IF normalize_sql(src.ddl) # normalize_sql(tgt.ddl)
              THEN appended(<<[comment |-> "differs. Replacing.", name |-> name,
                             statements |-> <<index_do_block(name, src.ddl)>>]>>, <<>>)
              ELSE appended(<<>>, one_skip(src.ddl))
         [] type = "TYPE" ->
              IF enum_values(src) # enum_values(tgt)
              THEN appended(recreate("differs. Recreating.",
                                   enum_ddl(name, src, <<"--", "ERROR: DDL not found for Enum",
                                                         ToString(name)>>)), <<>>)
              ELSE appended(<<>>, skip_entries(name, enum_ddl(name, src, <<>>)))
         [] type = "FUNCTION" ->
              IF src.ddl # tgt.ddl
              THEN appended(recreate("differs. Updating.", src.ddl), <<>>)
              ELSE appended(<<>>, skip_entries(name, src.ddl))
         [] type = "SEQUENCE" ->
              LET src_ddl == sequence_ddl(name, src)
              IN IF normalize_sql(src_ddl) # normalize_sql(sequence_ddl(name, tgt))
                 THEN IF src.is_called
                      THEN appended(<<[comment |-> "ALTER SEQUENCE to sync current value",
                                     name |-> name,
                                     statements |-> <<<<"ALTER SEQUENCE", ToString(name),
                                                        "RESTART WITH", src.last_value>>>>]>>,
                                  <<>>)
                      ELSE appended(<<[comment |-> "differs. Recreating.", name |-> name,
                                     statements |-> <<<<"DROP", "SEQUENCE", "IF EXISTS",
                                                        ToString(name), "CASCADE">>,
                                                      src_ddl>>]>>, <<>>)
                 ELSE appended(<<>>, one_skip(src_ddl))
         [] OTHER ->
              IF normalize_sql(src.ddl) # normalize_sql(tgt.ddl)
              THEN appended(recreate("differs. Recreating.", src.ddl), <<>>)
              ELSE appended(<<>>, skip_entries(name, src.ddl))

\* One pass of the loop over the names only in the source: the DDL of the
\* block tagged CREATE.
create_ddl(type, name, src) ==
    CASE type = "TABLE" -> generate_create_table_ddl(name, src.columns, src.composite_uniques)
      [] type = "TYPE" -> enum_ddl(name, src, <<"--", "ERROR: DDL not found for Enum",
                                                ToString(name)>>)
      [] type = "SEQUENCE" ->
             IF src.is_called
             THEN <<"DO", "IF EXISTS", "relname =", ToString(name), "THEN", "ALTER SEQUENCE",
                    ToString(name), "RESTART WITH", src.last_value, "END IF">>
             ELSE <<"--", "Sequence", ToString(name),
                    "is auto-generated by table, skipping explicit creation">>
      [] type = "INDEX" -> index_do_block(name, src.ddl)
      [] OTHER -> src.ddl

\* The orders in which a set of column names can yield its elements.
ColumnOrders == {<<"c1", "c2">>, <<"c2", "c1">>}

cmpOthers == <<engineVars, sortVars, execVars, seqVars, mainVars, src_fk_map, tgt_fk_map, fk_not_valid,
               fk_validate_sql,
               diff_todo, diff_pc>>

\* The call: use_alter is passed for tables only (main, 1723-1784).
CompareInit ==
    /\ obj_type \in ObjTypes
    /\ use_alter \in (IF obj_type = "TABLE" THEN BOOLEAN ELSE {FALSE})
    /\ cmp_pc = "source only"
    /\ cmp_name = 0
    /\ src_entry = <<>>
    /\ tgt_entry = <<>>
    /\ alter_statements = <<>>
    /\ cmp_snapshot = <<>>
    /\ cmp_first = <<>>

\* for name in src_keys - tgt_keys
CreateSourceOnly ==
    /\ cmp_pc = "source only"
    /\ cmp_name < MaxObjects
    /\ \E src \in Entries(obj_type) :
         /\ cmp_name' = cmp_name + 1
         /\ src_entry' = src
         /\ tgt_entry' = <<>>
         /\ migration_sql' = Append(migration_sql,
                [comment |-> "CREATE", name |-> cmp_name + 1,
                 statements |-> <<create_ddl(obj_type, cmp_name + 1, src)>>])
    /\ UNCHANGED <<cmpOthers, obj_type, use_alter, cmp_pc, alter_statements, skipped_sql,
                   cmp_snapshot, cmp_first>>

\* A name of tgt_keys that is not in src_keys is in neither loop's set.
LeaveTargetOnly ==
    /\ cmp_pc \in {"source only", "both sides"}
    /\ cmp_name < MaxObjects
    /\ \E tgt \in Entries(obj_type) :
         /\ cmp_name' = cmp_name + 1
         /\ src_entry' = <<>>
         /\ tgt_entry' = tgt
    /\ UNCHANGED <<cmpOthers, obj_type, use_alter, cmp_pc, alter_statements, migration_sql,
                   skipped_sql, cmp_snapshot, cmp_first>>

\* The first loop is through.
StartCommon ==
    /\ cmp_pc = "source only"
    /\ cmp_pc' = "both sides"
    /\ UNCHANGED <<cmpOthers, obj_type, use_alter, cmp_name, src_entry, tgt_entry,
                   alter_statements, migration_sql, skipped_sql, cmp_snapshot, cmp_first>>

\* One pass of the loop over the names on both sides.
ComparePass(src, tgt, order) ==
    LET name == cmp_name + 1
        pass == IF obj_type = "TABLE"
                THEN compare_table(name, src, tgt, order, alter_statements)
                ELSE compare_other(obj_type, name, src, tgt)
    IN /\ cmp_name' = name
       /\ src_entry' = src
       /\ tgt_entry' = tgt
       /\ alter_statements' = IF obj_type = "TABLE" THEN pass.alter_statements
                              ELSE alter_statements
       /\ migration_sql' = migration_sql \o pass.migration
       /\ skipped_sql' = skipped_sql \o pass.skipped

\* for name in src_keys.intersection(tgt_keys)
CompareCommon ==
    /\ cmp_pc = "both sides"
    /\ cmp_name < MaxObjects
    /\ \E src \in Entries(obj_type), tgt \in Entries(obj_type), order \in ColumnOrders :
         ComparePass(src, tgt, order)
    /\ UNCHANGED <<cmpOthers, obj_type, use_alter, cmp_pc, cmp_snapshot, cmp_first>>

\* return migration_sql, skipped_sql
ReturnCompare ==
    /\ cmp_pc = "both sides"
    /\ cmp_pc' = "returned"
    /\ UNCHANGED <<cmpOthers, obj_type, use_alter, cmp_name, src_entry, tgt_entry,
                   alter_statements, migration_sql, skipped_sql, cmp_snapshot, cmp_first>>

CompareNext ==
    \/ CreateSourceOnly
    \/ LeaveTargetOnly
    \/ StartCommon
    \/ CompareCommon
    \/ ReturnCompare

CompareStart == EngineIdle /\ SortIdle /\ ExecIdle /\ DiffIdle /\ CompareInit /\ SeqIdle /\ MainIdle

CompareSpec == CompareStart /\ [][CompareNext]_vars

(***************************************************************************)
(* The claims about compare_and_generate_migration speak of the object     *)
(* whose pass has just ended: its entries and the blocks under its name.   *)
(***************************************************************************)
OnBothSides == src_entry # <<>> /\ tgt_entry # <<>>

BlocksFor(name) == SelectSeq(migration_sql, LAMBDA b : b.name = name)

SkipsFor(name) == SelectSeq(skipped_sql, LAMBDA b : b.name = name)

\* The lines of a sequence of blocks, and whether a line has a word.
LinesOf(blocks) == Join([i \in DOMAIN blocks |-> blocks[i].statements])

Has(line, word) == \E i \in DOMAIN line : line[i] = word

IsComment(line) == line # <<>> /\ line[1] = "--"

CommonColumns(src, tgt) ==
    {src.columns[i].name : i \in DOMAIN src.columns}
    \cap {tgt.columns[i].name : i \in DOMAIN tgt.columns}

Column(entry, n) == entry.columns[CHOOSE i \in DOMAIN entry.columns : entry.columns[i].name = n]

TypeChanges(src, tgt) ==
    {n \in CommonColumns(src, tgt) : lower(Column(src, n).type) # lower(Column(tgt, n).type)}

UnsafeTypeChanges(src, tgt) ==
    {n \in TypeChanges(src, tgt) :
        ~is_safe_type_change(lower(Column(tgt, n).type), lower(Column(src, n).type))}

DropsTable(line) == ~IsComment(line) /\ Has(line, "DROP") /\ Has(line, "TABLE")

RecreateBlock(name, src) ==
    <<<<"DROP", "TABLE", "IF EXISTS", ToString(name), "CASCADE">>,
      generate_create_table_ddl(name, src.columns, src.composite_uniques)>>

\* C11: with ALTER mode on, a table pair in which a common column changes
\* type outside the safe widenings is recreated (DROP TABLE ... CASCADE, then
\* CREATE TABLE from the source metadata), and no line of the plan is an
\* ALTER COLUMN ... TYPE of that table, whatever its other columns do.
C11_UnsafeTypeChangeRecreates ==
    (/\ obj_type = "TABLE" /\ use_alter /\ OnBothSides
     /\ UnsafeTypeChanges(src_entry, tgt_entry) # {})
    => /\ \E i \in DOMAIN migration_sql :
             /\ migration_sql[i].name = cmp_name
             /\ migration_sql[i].statements = RecreateBlock(cmp_name, src_entry)
       /\ \A i \in DOMAIN LinesOf(migration_sql) :
             LET line == LinesOf(migration_sql)[i]
             IN ~(/\ Has(line, "ALTER COLUMN") /\ Has(line, "TYPE")
                  /\ line[2] = ToString(cmp_name))

\* An unsafe change of c1 next to a safe widening of c2, after a pass that
\* left ALTER statements behind.
C11_Witness ==
    /\ obj_type = "TABLE" /\ use_alter /\ OnBothSides
    /\ cmp_name = 2
    /\ UnsafeTypeChanges(src_entry, tgt_entry) = {"c1"}
    /\ TypeChanges(src_entry, tgt_entry) = {"c1", "c2"}
    /\ Len(BlocksFor(1)) = 1
    /\ BlocksFor(1)[1].comment = "ALTER TABLE for column changes"
    /\ Len(BlocksFor(2)) = 1
    /\ BlocksFor(2)[1].statements = RecreateBlock(2, src_entry)

SameBut(src, tgt, field) ==
    /\ Len(src.columns) = Len(tgt.columns)
    /\ \A i \in DOMAIN src.columns :
          \A f \in {"name", "type", "nullable", "default"} \ {field} :
             src.columns[i][f] = tgt.columns[i][f]

NullabilityFlips(src, tgt) ==
    {n \in CommonColumns(src, tgt) : Column(src, n).nullable # Column(tgt, n).nullable}

NotNullLines(lines) ==
    {i \in DOMAIN lines : /\ ~IsComment(lines[i])
                          /\ (Has(lines[i], "SET NOT NULL") \/ Has(lines[i], "DROP NOT NULL"))}

\* C12: with ALTER mode on, when the column lists of a table pair differ only
\* in the nullability of one common column, the blocks of that table hold
\* exactly one SET NOT NULL or DROP NOT NULL line (SET NOT NULL right after a
\* warning comment when the source column is NOT NULL, DROP NOT NULL
\* otherwise) and no DROP TABLE.
C12_AsClaimed ==
    (/\ obj_type = "TABLE" /\ use_alter /\ OnBothSides
     /\ SameBut(src_entry, tgt_entry, "nullable")
     /\ Cardinality(NullabilityFlips(src_entry, tgt_entry)) = 1)
    => LET lines == LinesOf(BlocksFor(cmp_name))
           col == CHOOSE n \in NullabilityFlips(src_entry, tgt_entry) : TRUE
       IN /\ Cardinality(NotNullLines(lines)) = 1
          /\ \A i \in NotNullLines(lines) :
                IF ~Column(src_entry, col).nullable
                THEN /\ Has(lines[i], "SET NOT NULL")
                     /\ i > 1 /\ IsComment(lines[i - 1])
                ELSE Has(lines[i], "DROP NOT NULL")
          /\ \A i \in DOMAIN lines : ~DropsTable(lines[i])

\* C13: an enum on both sides with equal sorted value lists gets no block and
\* a skip entry; with different value lists it gets exactly one block, DROP
\* TYPE IF EXISTS ... CASCADE followed by the source's CREATE TYPE text.
C13_AsClaimed ==
    (obj_type = "TYPE" /\ OnBothSides)
    => IF enum_values(src_entry) = enum_values(tgt_entry)
       THEN BlocksFor(cmp_name) = <<>> /\ SkipsFor(cmp_name) # <<>>
       ELSE /\ Len(BlocksFor(cmp_name)) = 1
            /\ SkipsFor(cmp_name) = <<>>
            /\ LET lines == BlocksFor(cmp_name)[1].statements
               IN /\ Len(lines) = 2
                  /\ lines[1] = <<"DROP", "TYPE", "IF EXISTS", ToString(cmp_name), "CASCADE">>
                  /\ lines[2][1] = "CREATE TYPE"
                  /\ SubSeq(lines[2], 4, Len(lines[2]))
                       = [i \in DOMAIN src_entry.labels |-> ToString(src_entry.labels[i])]

(***************************************************************************)
(* Two calls of compare_and_generate_migration on one snapshot that is the *)
(* same on both sides: cmp_snapshot[name] is the entry of src_data and of  *)
(* tgt_data under the name.  Both calls run in one process, so the set of  *)
(* names yields them in one order, the order of their numbers.             *)
(***************************************************************************)
IdenticalInit ==
    /\ obj_type \in ObjTypes
    /\ use_alter \in (IF obj_type = "TABLE" THEN BOOLEAN ELSE {FALSE})
    /\ \E n \in 1..MaxObjects : cmp_snapshot \in [1..n -> Entries(obj_type)]
    /\ cmp_pc = "first call"
    /\ cmp_name = 0
    /\ src_entry = <<>>
    /\ tgt_entry = <<>>
    /\ alter_statements = <<>>
    /\ cmp_first = <<>>

\* src_keys - tgt_keys is empty; every name is in the second loop.
CompareIdentical ==
    /\ cmp_pc \in {"first call", "second call"}
    /\ cmp_name < Len(cmp_snapshot)
    /\ \E order \in ColumnOrders :
         ComparePass(cmp_snapshot[cmp_name + 1], cmp_snapshot[cmp_name + 1], order)
    /\ UNCHANGED <<cmpOthers, obj_type, use_alter, cmp_pc, cmp_snapshot, cmp_first>>

ReturnFirst ==
    /\ cmp_pc = "first call"
    /\ cmp_name = Len(cmp_snapshot)
    /\ cmp_pc' = "returned"
    /\ cmp_first' = <<migration_sql, skipped_sql>>
    /\ UNCHANGED <<cmpOthers, obj_type, use_alter, cmp_name, src_entry, tgt_entry,
                   alter_statements, migration_sql, skipped_sql, cmp_snapshot>>

\* The second call starts with lists of its own.
CallAgain ==
    /\ cmp_pc = "returned"
    /\ cmp_pc' = "second call"
    /\ cmp_name' = 0
    /\ src_entry' = <<>>
    /\ tgt_entry' = <<>>
    /\ alter_statements' = <<>>
    /\ migration_sql' = <<>>
    /\ skipped_sql' = <<>>
    /\ UNCHANGED <<cmpOthers, obj_type, use_alter, cmp_snapshot, cmp_first>>

ReturnSecond ==
    /\ cmp_pc = "second call"
    /\ cmp_name = Len(cmp_snapshot)
    /\ cmp_pc' = "returned again"
    /\ UNCHANGED <<cmpOthers, obj_type, use_alter, cmp_name, src_entry, tgt_entry,
                   alter_statements, migration_sql, skipped_sql, cmp_snapshot, cmp_first>>

IdenticalNext ==
    \/ CompareIdentical
    \/ ReturnFirst
    \/ CallAgain
    \/ ReturnSecond

IdenticalStart == EngineIdle /\ SortIdle /\ ExecIdle /\ DiffIdle /\ IdenticalInit /\ SeqIdle /\ MainIdle

IdenticalSpec == IdenticalStart /\ [][IdenticalNext]_vars

ColumnNames(entry) == {entry.columns[i].name : i \in DOMAIN entry.columns}

\* C15: with ALTER mode on, a table pair that shares a column, has no unsafe
\* type change and has columns on one side only gets a single block; the
\* block holds exactly one ADD COLUMN line, with the source's DEFAULT and NOT
\* NULL clauses, for each column only in the source, and exactly one DROP
\* COLUMN line, right after a data-loss warning, for each column only in the
\* target; the table gets no DROP TABLE and no skip entry.
C15_AsClaimed ==
    (/\ obj_type = "TABLE" /\ use_alter /\ OnBothSides
     /\ CommonColumns(src_entry, tgt_entry) # {}
     /\ UnsafeTypeChanges(src_entry, tgt_entry) = {}
     /\ ColumnNames(src_entry) # ColumnNames(tgt_entry))
    => /\ Len(BlocksFor(cmp_name)) = 1
       /\ SkipsFor(cmp_name) = <<>>
       /\ LET lines == LinesOf(BlocksFor(cmp_name))
              of(word, n) == {i \in DOMAIN lines : /\ ~IsComment(lines[i])
                                                   /\ Has(lines[i], word) /\ Has(lines[i], n)}
          IN /\ \A n \in ColumnNames(src_entry) \ ColumnNames(tgt_entry) :
                   /\ Cardinality(of("ADD COLUMN", n)) = 1
                   /\ \A i \in of("ADD COLUMN", n) :
                         /\ Has(lines[i], "NOT NULL") <=> ~Column(src_entry, n).nullable
                         /\ Has(lines[i], "DEFAULT")
                              <=> Column(src_entry, n).default # NoDefault
                         /\ Has(lines[i], Column(src_entry, n).type)
             /\ \A n \in ColumnNames(tgt_entry) \ ColumnNames(src_entry) :
                   /\ Cardinality(of("DROP COLUMN", n)) = 1
                   /\ \A i \in of("DROP COLUMN", n) :
                         /\ i > 1 /\ IsComment(lines[i - 1])
                         /\ Has(lines[i - 1], "WARNING: Dropping column")
             /\ \A i \in DOMAIN lines : ~DropsTable(lines[i])

Creates(line) ==
    /\ ~IsComment(line)
    /\ \E i \in DOMAIN line :
          line[i] \in {"CREATE", "create", "CREATE TABLE", "CREATE TYPE", "CREATE SEQUENCE"}

\* C16: in every category an object only in the source gets exactly one
\* block, tagged CREATE, with a statement that creates the object; an object
\* only in the target gets no block.
C16_AsClaimed ==
    /\ (src_entry # <<>> /\ tgt_entry = <<>>)
       => /\ Len(BlocksFor(cmp_name)) = 1
          /\ BlocksFor(cmp_name)[1].comment = "CREATE"
          /\ \E i \in DOMAIN BlocksFor(cmp_name)[1].statements :
                Creates(BlocksFor(cmp_name)[1].statements[i])
    /\ (src_entry = <<>> /\ tgt_entry # <<>>) => BlocksFor(cmp_name) = <<>>

\* C17: a sequence on both sides whose descriptors (the DDL texts of
\* fetch_sequences) differ gets an ALTER SEQUENCE ... RESTART WITH line and no
\* DROP SEQUENCE line.
C17_AsClaimed ==
    (/\ obj_type = "SEQUENCE" /\ OnBothSides
     /\ normalize_sql(sequence_ddl(cmp_name, src_entry))
          # normalize_sql(sequence_ddl(cmp_name, tgt_entry)))
    => LET lines == LinesOf(BlocksFor(cmp_name))
       IN /\ \E i \in DOMAIN lines :
                Has(lines[i], "ALTER SEQUENCE") /\ Has(lines[i], "RESTART WITH")
          /\ \A i \in DOMAIN lines : ~(Has(lines[i], "DROP") /\ Has(lines[i], "SEQUENCE"))

\* C18: two tables with the same column lists and different composite UNIQUE
\* constraints are treated as different: the table gets a block and no skip
\* entry.
C18_AsClaimed ==
    (/\ obj_type = "TABLE" /\ OnBothSides
     /\ src_entry.columns = tgt_entry.columns
     /\ src_entry.composite_uniques # tgt_entry.composite_uniques)
    => BlocksFor(cmp_name) # <<>> /\ SkipsFor(cmp_name) = <<>>

\* Whether the comparison of the function finds the two texts different:
\* functions are compared as they are, views and indexes normalized.
DdlDiffers(type, src, tgt) ==
    IF type = "FUNCTION" THEN src.ddl # tgt.ddl
    ELSE normalize_sql(src.ddl) # normalize_sql(tgt.ddl)

DropThenCreate(type, name, src) ==
    /\ Len(BlocksFor(name)) = 1
    /\ BlocksFor(name)[1].statements
         = <<<<"DROP", type, "IF EXISTS", ToString(name), "CASCADE">>, src.ddl>>
    /\ SkipsFor(name) = <<>>

AddConstraintLines ==
    SelectSeq(Join([b \in DOMAIN migration_sql |-> migration_sql[b].statements]),
              LAMBDA line : \E i \in DOMAIN line : line[i] = "ADD CONSTRAINT")

\* C21: in NOT VALID mode every ADD CONSTRAINT statement of the foreign-key
\* plan ends with NOT VALID, written once, and the validate list main builds
\* holds exactly one VALIDATE CONSTRAINT statement, of the same table and
\* constraint, for each of them, so the validate file is written whenever a
\* foreign key was added.
C21_AsClaimed ==
    (diff_pc = "returned" /\ fk_not_valid)
    => /\ \A i \in DOMAIN AddConstraintLines :
             LET line == AddConstraintLines[i]
             IN /\ Cardinality({w \in DOMAIN line : line[w] = "NOT VALID"}) = 1
                /\ line[Len(line)] = ";" /\ line[Len(line) - 1] = "NOT VALID"
       /\ Len(fk_validate_sql) = Len(AddConstraintLines)
       /\ \A i \in DOMAIN AddConstraintLines :
             fk_validate_sql[i] = <<"ALTER TABLE", AddConstraintLines[i][2],
                                    "VALIDATE CONSTRAINT", AddConstraintLines[i][4], ";">>
       /\ AddConstraintLines # <<>> => fk_validate_sql # <<>>

(***************************************************************************)
(* The validate script of the data-migration engine.                       *)
(***************************************************************************)
\* The recorded constraints the restore phase has added again: those that
\* were dropped and are on the target.
ReAdded ==
    {FkKey(dropped_fks[k]) : k \in DOMAIN dropped_fks}
    \cap (CatalogKeys(tgt_fks) \ drop_failed)

\* C22: the validate script holds exactly one VALIDATE CONSTRAINT statement
\* for each foreign key the restore phase added again and none for another
\* constraint, and the engine validates nothing itself: the constraints it
\* added are NOT VALID on the target.
C22_AsClaimed ==
    pc = "done" =>
        /\ {<<validate_script[k][2], validate_script[k][4]>> : k \in DOMAIN validate_script}
              = ReAdded
        /\ Len(validate_script) = Cardinality(ReAdded)
        /\ \A k \in DOMAIN validate_script : validate_script[k][3] = "VALIDATE CONSTRAINT"
        /\ \A c \in tgt_fks : <<c.table, c.name>> \in ReAdded => ~c.validated
        /\ \A stmt \in issued_add : \A w \in DOMAIN stmt : stmt[w] # "VALIDATE CONSTRAINT"

(***************************************************************************)
(* Several tables in one call of compare_and_generate_migration.           *)
(***************************************************************************)
\* C28: with ALTER mode on, every statement of a table's blocks that alters
\* a table alters that table, and a table identical on both sides gets a skip
\* entry and no block, whatever was compared before it in the same call.
C28_AsClaimed ==
    (obj_type = "TABLE" /\ use_alter /\ OnBothSides)
    => /\ \A i \in DOMAIN LinesOf(BlocksFor(cmp_name)) :
             LET line == LinesOf(BlocksFor(cmp_name))[i]
             IN (line # <<>> /\ line[1] = "ALTER TABLE") => line[2] = ToString(cmp_name)
       /\ src_entry = tgt_entry
          => BlocksFor(cmp_name) = <<>> /\ SkipsFor(cmp_name) # <<>>

(***************************************************************************)
(* A second run on the target a first run has left.                        *)
(***************************************************************************)
\* The run began on a target whose foreign keys were all NOT VALID.
AfterPriorRun == fks_at_start # {} /\ \A c \in fks_at_start : ~c.validated

C30_AsClaimed ==
    /\ \A k \in DOMAIN available_connections :
          /\ src_state[available_connections[k]] # "failed"
          /\ tgt_state[available_connections[k]] # "failed"
    /\ \A t \in DOMAIN conn_idx :
          (conn_idx[t] # None /\ task[t] = "holding") => src_state[conn_idx[t]] # "failed"

(***************************************************************************)
(* The reconciliation of sequence values that follows the data load in     *)
(* main (__main__.py:1849-1949): the loop over the identity columns, the   *)
(* loop over the sequences found on both sides, the commit, and the call   *)
(* of verify_sequence_values.  A sequence is its (last_value, is_called)   *)
(* pair; the sequence of an identity column is found under the name        *)
(* <table>_<column>_seq, here the name of the column.                      *)
(***************************************************************************)
MaxSeqValue == 2
SeqValues == 1..MaxSeqValue
Pairs == [last_value : SeqValues, is_called : BOOLEAN]

\* The identity columns of src_tables_meta, in the order of the dictionary.
IdentityColumns == <<"t1.id", "t2.id">>
\* set(src_sequences.keys()) & set(tgt_sequences.keys())
common_sequences == <<"s1">>

\* SELECT setval(seq, value, is_called)
setval(value, is_called) == [last_value |-> value, is_called |-> is_called]

setval_whatever_the_sequence(seq, max_id) == setval(max_id, TRUE)

\* The three branches on seq_last_value and table_max_id (1877-1895,
\* 685-703): equal, ahead, trailing.
identity_branches(seq, max_id) ==
    IF seq.last_value = max_id THEN seq
    ELSE IF seq.last_value > max_id THEN seq
    ELSE setval(max_id, TRUE)

\* The branch on the two last_value (1924-1938, 905-919).
sequence_branches(src, tgt) ==
    IF src.last_value # tgt.last_value
    THEN setval(src.last_value, src.is_called)
    ELSE tgt

identity_message(seq, max_id) ==
    IF seq.last_value = max_id THEN "match"
    ELSE IF seq.last_value > max_id THEN "keeping" ELSE "updated"

Logged(name, message) == [seq_log EXCEPT ![name] = Append(@, message)]

SeqInit ==
    /\ tgt_seq \in [Range(IdentityColumns) \cup Range(common_sequences) -> Pairs]
    /\ src_seq \in [Range(common_sequences) -> Pairs]
    /\ tgt_max_id \in [Range(IdentityColumns) -> 0..(MaxSeqValue + 1)]
    /\ seq_todo = IdentityColumns
    /\ seq_tx = "open"
    /\ seq_pc = "identity"
    /\ seq_before = tgt_seq
    /\ seq_log = [n \in DOMAIN tgt_seq |-> <<>>]

seqOthers == <<engineVars, sortVars, execVars, diffVars, cmpVars, mainVars>>

\* One turn of the loop over the identity columns, in main or in
\* verify_sequence_values.
VerifyIdentityColumn ==
    /\ seq_pc \in {"identity", "final"}
    /\ seq_todo # <<>>
    /\ seq_tx = "open"
    /\ LET col == Head(seq_todo)
       IN /\ tgt_seq' = [tgt_seq EXCEPT ![col] = identity_branches(@, tgt_max_id[col])]
          /\ seq_log' = Logged(col, identity_message(tgt_seq[col], tgt_max_id[col]))
    /\ seq_todo' = Tail(seq_todo)
    /\ UNCHANGED <<seqOthers, src_seq, tgt_max_id, seq_tx, seq_pc, seq_before>>

\* One turn of the loop over common_sequences.
SyncSequence ==
    /\ seq_pc = "explicit"
    /\ seq_todo # <<>>
    /\ seq_tx = "open"
    /\ LET seq_name == Head(seq_todo)
       IN /\ tgt_seq' = [tgt_seq EXCEPT ![seq_name] = sequence_branches(src_seq[seq_name], @)]
          /\ seq_log' = Logged(seq_name,
                               IF src_seq[seq_name].last_value # tgt_seq[seq_name].last_value
                               THEN "updated" ELSE "already synced")
    /\ seq_todo' = Tail(seq_todo)
    /\ UNCHANGED <<seqOthers, src_seq, tgt_max_id, seq_tx, seq_pc, seq_before>>

\* A statement of the turn raises (the sequence is not there under that
\* name, a lock timeout, or the transaction is aborted already): the except
\* clause of the turn prints it, and the transaction is left aborted.
SeqStatementFails ==
    /\ seq_pc \in {"identity", "explicit", "final"}
    /\ seq_todo # <<>>
    /\ seq_log' = Logged(Head(seq_todo), "failed")
    /\ seq_tx' = "aborted"
    /\ seq_todo' = Tail(seq_todo)
    /\ UNCHANGED <<seqOthers, tgt_seq, src_seq, tgt_max_id, seq_pc, seq_before>>

\* The loop over the identity columns is through.
StartExplicit ==
    /\ seq_pc = "identity"
    /\ seq_todo = <<>>
    /\ seq_pc' = "explicit"
    /\ seq_todo' = common_sequences
    /\ UNCHANGED <<seqOthers, tgt_seq, src_seq, tgt_max_id, seq_tx, seq_before, seq_log>>

\* tgt_conn.commit(), which ends an aborted transaction too (setval is not
\* undone by it), and the call of verify_sequence_values.
CommitSequences ==
    /\ seq_pc = "explicit"
    /\ seq_todo = <<>>
    /\ seq_tx' = "open"
    /\ seq_pc' = "final"
    /\ seq_todo' = IdentityColumns
    /\ UNCHANGED <<seqOthers, tgt_seq, src_seq, tgt_max_id, seq_before, seq_log>>

\* verify_sequence_values returns.
ReturnVerify ==
    /\ seq_pc = "final"
    /\ seq_todo = <<>>
    /\ seq_pc' = "returned"
    /\ UNCHANGED <<seqOthers, tgt_seq, src_seq, tgt_max_id, seq_todo, seq_tx, seq_before,
                   seq_log>>

SeqNext ==
    \/ VerifyIdentityColumn
    \/ SyncSequence
    \/ SeqStatementFails
    \/ StartExplicit
    \/ CommitSequences
    \/ ReturnVerify

SeqStart == EngineIdle /\ SortIdle /\ ExecIdle /\ DiffIdle /\ CmpIdle /\ SeqInit /\ MainIdle

SeqSpec == SeqStart /\ [][SeqNext]_vars

\* A turn of a loop has visited the name and none of its statements raised.
Reconciled(name) == \E k \in DOMAIN seq_log[name] : seq_log[name][k] # "failed"

C24_AsClaimed ==
    seq_pc \in {"final", "returned"}
    => \A k \in DOMAIN common_sequences :
          LET seq_name == common_sequences[k]
          IN (seq_before[seq_name] # src_seq[seq_name] /\ Reconciled(seq_name))
             => tgt_seq[seq_name] = src_seq[seq_name]

(***************************************************************************)
(* main as a process: the command line, the configuration file, the        *)
(* connections, the plan, and the branch on --with-data and --commit; and  *)
(* the head of run_data_migration_parallel, which main calls with the      *)
(* keyword config_path and which another caller calls directly.            *)
(***************************************************************************)
ConfigPaths == {"config.yaml", "other.yaml"}

\* A connection block in the two spellings of its keys.
AlternateBlock == [host |-> "db.example", db |-> "postgres", username |-> "app"]
CanonicalBlock == [host |-> "db.example", dbname |-> "postgres", user |-> "app"]
Blocks == {AlternateBlock, CanonicalBlock}

\* What a path holds: no file, a file load_config rejects, or a
\* configuration with its source and targets.gcp_test blocks.
Missing == [state |-> "missing", source |-> <<>>, target |-> <<>>]
Invalid == [state |-> "invalid", source |-> <<>>, target |-> <<>>]
Configs == {[state |-> "ok", source |-> s, target |-> t] : s \in Blocks, t \in Blocks}

\* The parameters of run_data_migration_parallel (dataMig.py:239).
Parameters == {"src_conn", "src_tables_meta", "src_composite_fks", "max_total_attempts"}

\* The connection options of the driver that the blocks use.
DsnOptions == {"host", "port", "dbname", "user", "password"}

\* config['dbname'] = config.pop('db') and the like.
Renamed(config, old, new) ==
    [k \in (DOMAIN config \ {old}) \cup {new} |-> IF k = new THEN config[old] ELSE config[k]]

keys_as_they_are(config) == config

\* The adjustment of the keys in main (1556-1566).
adjust_keys(config) ==
    LET db == IF "db" \in DOMAIN config THEN Renamed(config, "db", "dbname") ELSE config
    IN IF "username" \in DOMAIN db THEN Renamed(db, "username", "user") ELSE db

\* get_connection: psycopg2.connect(**config) returns a connection.
Connects(config) == server_up /\ DOMAIN config \subseteq DsnOptions

\* The calls of get_connection a sequence of configurations leads to: each
\* in turn, up to the first that raises.
RECURSIVE CallsUntilRaise(_)
CallsUntilRaise(configs) ==
    IF configs = <<>> THEN <<>>
    ELSE IF Connects(Head(configs)) THEN <<Head(configs)>> \o CallsUntilRaise(Tail(configs))
    ELSE <<Head(configs)>>

MainInit ==
    /\ caller \in {"main", "direct"}
    /\ args \in [config : ConfigPaths, verify : BOOLEAN, commit : BOOLEAN,
                 with_data : BOOLEAN, skip_fk : BOOLEAN, fk_not_valid : BOOLEAN]
    /\ caller = "direct"
       => args = [config |-> "config.yaml", verify |-> FALSE, commit |-> TRUE,
                  with_data |-> TRUE, skip_fk |-> FALSE, fk_not_valid |-> FALSE]
    /\ files \in [ConfigPaths -> {Missing, Invalid} \cup Configs]
    /\ files["other.yaml"] \in {Missing, [state |-> "ok", source |-> AlternateBlock,
                                          target |-> AlternateBlock]}
    /\ call_keywords \in (IF caller = "main" THEN {{}} ELSE {{}, {"config_path"}})
    /\ server_up \in BOOLEAN
    /\ source_config = <<>>
    /\ target_config = <<>>
    /\ connect_calls = <<>>
    /\ schema_executed = FALSE
    /\ data_phases = <<>>
    /\ remaining_failed = FALSE
    /\ printed = <<>>
    /\ raised = "none"
    /\ exit_status = <<>>
    /\ main_pc = IF caller = "main" THEN "parse" ELSE "call"

mainOthers == <<engineVars, sortVars, execVars, diffVars, cmpVars, seqVars>>

\* parse_args and the check of --skip-fk with --fk-not-valid.
ParseArgs ==
    /\ main_pc = "parse"
    /\ IF args.skip_fk /\ args.fk_not_valid
       THEN /\ printed' = Append(printed, "Error: mutually exclusive")
            /\ main_pc' = "returned"
       ELSE /\ printed' = printed
            /\ main_pc' = "load_config"
    /\ UNCHANGED <<mainOthers, args, files, caller, call_keywords, server_up, source_config,
                   target_config, connect_calls, schema_executed, data_phases,
                   remaining_failed, raised, exit_status>>

\* load_config, the checks of the two sections, and the adjustment of the
\* keys of both blocks.
LoadConfig ==
    /\ main_pc = "load_config"
    /\ IF files[args.config].state # "ok"
       THEN /\ printed' = Append(printed, "Error: configuration")
            /\ main_pc' = "returned"
            /\ UNCHANGED <<source_config, target_config>>
       ELSE /\ source_config' = adjust_keys(files[args.config].source)
            /\ target_config' = adjust_keys(files[args.config].target)
            /\ printed' = printed
            /\ main_pc' = "connect"
    /\ UNCHANGED <<mainOthers, args, files, caller, call_keywords, server_up, connect_calls,
                   schema_executed, data_phases, remaining_failed, raised, exit_status>>

\* The two connections, in a try whose except clauses print and return.
ConnectBoth ==
    /\ main_pc = "connect"
    /\ connect_calls' = connect_calls \o CallsUntilRaise(<<source_config, target_config>>)
    /\ IF Connects(source_config) /\ Connects(target_config)
       THEN /\ printed' = printed
            /\ main_pc' = "fetch"
       ELSE /\ printed' = Append(printed, "Database connection error")
            /\ main_pc' = "returned"
    /\ UNCHANGED <<mainOthers, args, files, caller, call_keywords, server_up, source_config,
                   target_config, schema_executed, data_phases, remaining_failed, raised,
                   exit_status>>

\* --verify: the report, and return.
VerifyOnly ==
    /\ main_pc = "fetch"
    /\ args.verify
    /\ printed' = Append(printed, "Verification Summary")
    /\ main_pc' = "returned"
    /\ UNCHANGED <<mainOthers, args, files, caller, call_keywords, server_up, source_config,
                   target_config, connect_calls, schema_executed, data_phases,
                   remaining_failed, raised, exit_status>>

\* The plan is generated and its files are written.
WritePlan ==
    /\ main_pc = "fetch"
    /\ ~args.verify
    /\ main_pc' = "plan written"
    /\ UNCHANGED <<mainOthers, args, files, caller, call_keywords, server_up, source_config,
                   target_config, connect_calls, schema_executed, data_phases,
                   remaining_failed, printed, raised, exit_status>>

\* if args.with_data: the connections are closed and opened again, and the
\* engine is called with config_path=config_path.
WithData ==
    /\ main_pc = "plan written"
    /\ args.with_data
    /\ connect_calls' = connect_calls \o <<source_config, target_config>>
    /\ call_keywords' = {"config_path"}
    /\ main_pc' = "call"
    /\ UNCHANGED <<mainOthers, args, files, caller, server_up, source_config, target_config,
                   schema_executed, data_phases, remaining_failed, printed, raised,
                   exit_status>>

\* elif args.commit: the plan is executed, to its end or to the block that
\* fails.
ExecutePlan ==
    /\ main_pc = "plan written"
    /\ ~args.with_data /\ args.commit
    /\ \E execution_succeeds \in BOOLEAN :
         /\ schema_executed' = execution_succeeds
         /\ printed' = Append(printed, IF execution_succeeds
                                       THEN "Schema migration completed"
                                       ELSE "Migration SQL execution failed")
    /\ main_pc' = "returned"
    /\ UNCHANGED <<mainOthers, args, files, caller, call_keywords, server_up, source_config,
                   target_config, connect_calls, data_phases, remaining_failed, raised,
                   exit_status>>

\* Neither --with-data nor --commit: the files are all there is.
FilesOnly ==
    /\ main_pc = "plan written"
    /\ ~args.with_data /\ ~args.commit
    /\ main_pc' = "returned"
    /\ UNCHANGED <<mainOthers, args, files, caller, call_keywords, server_up, source_config,
                   target_config, connect_calls, schema_executed, data_phases,
                   remaining_failed, printed, raised, exit_status>>

\* The call of run_data_migration_parallel binds its arguments: a keyword
\* that is no parameter raises TypeError before the body runs.
CallEngine ==
    /\ main_pc = "call"
    /\ IF call_keywords \subseteq Parameters
       THEN /\ raised' = raised
            /\ main_pc' = "engine config"
       ELSE /\ raised' = "TypeError"
            /\ main_pc' = IF caller = "main" THEN "except" ELSE "raised"
    /\ UNCHANGED <<mainOthers, args, files, caller, call_keywords, server_up, source_config,
                   target_config, connect_calls, schema_executed, data_phases,
                   remaining_failed, printed, exit_status>>

\* The engine opens "config.yaml" itself and takes the two blocks as the
\* file has them.
EngineReadsConfig ==
    /\ main_pc = "engine config"
    /\ IF files["config.yaml"].state # "ok"
       THEN /\ printed' = Append(printed, "Error: config.yaml")
            /\ main_pc' = "engine returned"
            /\ UNCHANGED <<source_config, target_config>>
       ELSE /\ source_config' = keys_as_they_are(files["config.yaml"].source)
            /\ target_config' = keys_as_they_are(files["config.yaml"].target)
            /\ printed' = printed
            /\ main_pc' = "pool"
    /\ UNCHANGED <<mainOthers, args, files, caller, call_keywords, server_up, connect_calls,
                   schema_executed, data_phases, remaining_failed, raised, exit_status>>

\* The pool: MAX_WORKERS times get_connection(source_config) and
\* get_connection(target_config); nothing catches what they raise.
EngineCreatesPool ==
    /\ main_pc = "pool"
    /\ LET pool == [k \in 1..(2 * MAX_WORKERS) |->
                       IF k % 2 = 1 THEN source_config ELSE target_config]
       IN /\ connect_calls' = connect_calls \o CallsUntilRaise(pool)
          /\ IF \A k \in DOMAIN pool : Connects(pool[k])
             THEN /\ raised' = raised
                  /\ main_pc' = "engine run"
             ELSE /\ raised' = "psycopg2.Error"
                  /\ main_pc' = IF caller = "main" THEN "except" ELSE "raised"
    /\ UNCHANGED <<mainOthers, args, files, caller, call_keywords, server_up, source_config,
                   target_config, schema_executed, data_phases, remaining_failed, printed,
                   exit_status>>

\* The engine's phases, and its closing report; it returns None whether
\* tables are left in remaining_tables or not.
EngineRuns ==
    /\ main_pc = "engine run"
    /\ data_phases' = <<"drop", "load", "restore">>
    /\ \E failures \in BOOLEAN :
         /\ remaining_failed' = failures
         /\ printed' = Append(printed, IF failures
                                       THEN "Data Migration Completed with Failures"
                                       ELSE "All tables migrated successfully")
    /\ main_pc' = "engine returned"
    /\ UNCHANGED <<mainOthers, args, files, caller, call_keywords, server_up, source_config,
                   target_config, connect_calls, schema_executed, raised, exit_status>>

\* The engine returns to its caller; in main the reconciliation of the
\* sequences follows.
EngineReturns ==
    /\ main_pc = "engine returned"
    /\ main_pc' = IF caller = "main" THEN "sequences" ELSE "returned"
    /\ UNCHANGED <<mainOthers, args, files, caller, call_keywords, server_up, source_config,
                   target_config, connect_calls, schema_executed, data_phases,
                   remaining_failed, printed, raised, exit_status>>

\* except Exception of the --with-data branch: print, roll back; the
\* finally closes both connections, and main returns.
ExceptDataMigration ==
    /\ main_pc = "except"
    /\ printed' = Append(printed, "Error during data migration")
    /\ raised' = "none"
    /\ main_pc' = "returned"
    /\ UNCHANGED <<mainOthers, args, files, caller, call_keywords, server_up, source_config,
                   target_config, connect_calls, schema_executed, data_phases,
                   remaining_failed, exit_status>>

exit_status_of_return == <<0>>

\* main() has returned and nothing calls sys.exit: the interpreter ends
\* with status 0.
ProcessExits ==
    /\ main_pc = "returned"
    /\ caller = "main"
    /\ exit_status' = exit_status_of_return
    /\ main_pc' = "exited"
    /\ UNCHANGED <<mainOthers, args, files, caller, call_keywords, server_up, source_config,
                   target_config, connect_calls, schema_executed, data_phases,
                   remaining_failed, printed, raised>>

MainNext ==
    \/ ParseArgs
    \/ LoadConfig
    \/ ConnectBoth
    \/ VerifyOnly
    \/ WritePlan
    \/ WithData
    \/ ExecutePlan
    \/ FilesOnly
    \/ CallEngine
    \/ EngineReadsConfig
    \/ EngineCreatesPool
    \/ EngineRuns
    \/ EngineReturns
    \/ ExceptDataMigration
    \/ ProcessExits

MainStart == EngineIdle /\ SortIdle /\ ExecIdle /\ DiffIdle /\ CmpIdle /\ SeqIdle /\ MainInit

MainSpec == MainStart /\ [][MainNext]_vars

Printed(message) == \E k \in DOMAIN printed : printed[k] = message

\* The run ended before the plan: wrong options, no usable configuration,
\* or no connection.
PreflightError ==
    \/ Printed("Error: mutually exclusive")
    \/ Printed("Error: configuration")
    \/ Printed("Database connection error")

\* C25: run_data_migration_parallel, called with config_path naming a file
\* whose two blocks spell their keys db and username, runs, and every
\* configuration given to get_connection has dbname and user and neither db
\* nor username.
C25_AsClaimed ==
    (/\ "config_path" \in call_keywords
     /\ main_pc # "call"
     /\ files[args.config].state = "ok"
     /\ files[args.config].source = AlternateBlock
     /\ files[args.config].target = AlternateBlock)
    => /\ raised # "TypeError" /\ ~Printed("Error during data migration")
       /\ \A k \in DOMAIN connect_calls :
             /\ {"dbname", "user"} \subseteq DOMAIN connect_calls[k]
             /\ {"db", "username"} \cap DOMAIN connect_calls[k] = {}

\* C26: a run with --with-data and committing enabled that got as far as
\* its plan has executed the plan on the target, and the engine's drop, load
\* and restore phases have run.
C26_AsClaimed ==
    (/\ caller = "main" /\ main_pc = "exited"
     /\ args.with_data /\ args.commit /\ ~args.verify
     /\ ~PreflightError)
    => /\ schema_executed
       /\ data_phases = <<"drop", "load", "restore">>

\* C27: the exit status is 1 after a configuration or connection error, 2
\* when the engine ended with tables permanently failed after the schema was
\* applied, and 0 only when nothing failed.
C27_AsClaimed ==
    (caller = "main" /\ main_pc = "exited")
    => /\ (Printed("Error: configuration") \/ Printed("Database connection error"))
          => exit_status = <<1>>
       /\ remaining_failed => exit_status = <<2>>
       /\ exit_status = <<0>>
          => /\ ~PreflightError
             /\ ~Printed("Error during data migration")
             /\ ~Printed("Migration SQL execution failed")

(***************************************************************************)
(* Nullability next to a type change, and defaults.                        *)
(***************************************************************************)
\* C31: with ALTER mode on, a table that is not recreated has, for every
\* common column whose nullability differs, the SET NOT NULL (source NOT
\* NULL) or DROP NOT NULL statement of that column in its blocks, also when
\* the column's type changes by a safe widening.
C31_AsClaimed ==
    (/\ obj_type = "TABLE" /\ use_alter /\ OnBothSides
     /\ \A i \in DOMAIN LinesOf(BlocksFor(cmp_name)) :
           ~DropsTable(LinesOf(BlocksFor(cmp_name))[i]))
    => \A n \in NullabilityFlips(src_entry, tgt_entry) :
          \E i \in DOMAIN LinesOf(BlocksFor(cmp_name)) :
             LET line == LinesOf(BlocksFor(cmp_name))[i]
             IN /\ ~IsComment(line)
                /\ line[2] = ToString(cmp_name)
                /\ Has(line, "ALTER COLUMN") /\ Has(line, n)
                /\ Has(line, IF Column(src_entry, n).nullable
                             THEN "DROP NOT NULL" ELSE "SET NOT NULL")

\* Some column of the pair has another default on the other side.
DefaultDiffers(src, tgt) ==
    \E i \in DOMAIN src.columns : src.columns[i].default # tgt.columns[i].default

\* C40: with ALTER mode on, a table pair whose columns agree in name, type
\* and nullability and differ in a default only gets no block and a skip
\* entry.
C40_AsClaimed ==
    (/\ obj_type = "TABLE" /\ use_alter /\ OnBothSides
     /\ SameBut(src_entry, tgt_entry, "default")
     /\ src_entry.composite_uniques = tgt_entry.composite_uniques
     /\ DefaultDiffers(src_entry, tgt_entry))
    => BlocksFor(cmp_name) = <<>> /\ SkipsFor(cmp_name) # <<>>

(***************************************************************************)
(* The foreign key batches, the retry rounds and the pool, revisited.      *)
(***************************************************************************)

BatchStarts(list, upto) == {b \in 0..(Len(list) - 1) : b % BATCH_SIZE = 0 /\ b < upto}
BatchKeys(list, b) == {FkKey(Batch(list, b)[k]) : k \in 1..Len(Batch(list, b))}
SkippedIn(phase) == UNION {r.skipped : r \in {q \in fk_retries : q.phase = phase}}

NoDuplicates(q) == \A i, j \in DOMAIN q : i # j => q[i] # q[j]
\* The tables whose attempt of round n failed or raised.
FailedInRound(n) ==
    {t \in Tables : Len(attempt_log[t]) >= n /\ ~Succeeded(attempt_log[t][n])}

\* C33: the input of round n+1 is exactly the tables whose attempt of round
\* n failed or raised, each once; a round begins only when every task of the
\* round before it has completed; no round begins once no table is pending
\* or max_total_attempts rounds have run.
C33_RoundsRetryExactlyTheFailures ==
    /\ attempt \in 1..(max_total_attempts + 1)
    /\ NoDuplicates(remaining_tables) /\ NoDuplicates(next_round)
    /\ ((pc \in {"load", "wait"} \/ LoopLeft) /\ attempt > 1)
          => Range(remaining_tables) =
                FailedInRound(attempt - 1)
    /\ pc = "wait" =>
          /\ attempt <= max_total_attempts /\ remaining_tables # <<>>
          /\ \A t \in Tables :
                /\ Len(attempt_log[t]) <= attempt
                /\ task[t] # "idle" \/ t \in Range(work_queue)
                      => /\ t \in Range(remaining_tables)
                         /\ Len(attempt_log[t]) = attempt - (IF task[t] = "completed" THEN 0 ELSE 1)
          /\ Range(next_round) =
                {t \in FailedInRound(attempt) : task[t] = "idle"}
    /\ pc = "load" =>
          /\ work_queue = <<>> /\ DOMAIN conn_idx = {}
          /\ \A t \in Tables : task[t] = "idle" /\ Len(attempt_log[t]) <= attempt - 1
    /\ LoopLeft =>
          /\ remaining_tables = <<>> \/ attempt = max_total_attempts + 1
          /\ \A t \in Tables : task[t] = "idle" /\ Len(attempt_log[t]) <= attempt - 1

\* The second round is running with one table only, a table that failed in
\* the first round, while another table of the first round succeeded.
C33_Witness ==
    /\ pc = "wait" /\ attempt = 2
    /\ Len(remaining_tables) = 1
    /\ \E t \in Tables : task[t] = "holding" /\ attempt_log[t] # <<>>
    /\ \E u \in Tables : Len(attempt_log[u]) = 1 /\ Succeeded(attempt_log[u][1])

\* C34: every worker that runs a load holds a complete pair of connections:
\* the workers that run at the same time never outnumber the slots of the
\* pool, so get_conn_from_pool never returns (None, (None, None)), and None is
\* never put on the free list.
C34_WorkersNeverOutnumberSlots ==
    /\ Cardinality(Running) <= MAX_WORKERS
    /\ \A t \in DOMAIN conn_idx : conn_idx[t] \in Slots
    /\ \A k \in DOMAIN available_connections : available_connections[k] \in Slots
    /\ \A t \in Tables : task[t] = "started" => available_connections # <<>>

\* As many workers as the pool has slots hold one each, the free list is
\* empty and a further task is waiting for a thread.
C34_Witness ==
    /\ Cardinality(DOMAIN conn_idx) = MAX_WORKERS
    /\ available_connections = <<>>
    /\ work_queue # <<>>
    /\ \A t \in Tables : task[t] # "completed"

\* C35 as claimed: the connection on which the DROP and ADD CONSTRAINT
\* statements run is not one of the pooled connections handed to workers.
C35_AsClaimed ==
    \A t \in DOMAIN conn_idx : conn_idx[t] # fk_slot

\* A DROP or ADD CONSTRAINT statement can run in this state.
FkPhase == pc \in {"drop", "drop_batches", "restore", "restore_batches"}

\* C36: no DROP or ADD CONSTRAINT statement runs while a worker holds a slot
\* of the pool: during both foreign key phases no task is queued, started or
\* complete and unseen, and every slot is on the free list.
C36_FkPhasesExcludeWorkers ==
    FkPhase =>
        /\ DOMAIN conn_idx = {}
        /\ work_queue = <<>>
        /\ \A t \in Tables : task[t] = "idle"
        /\ Range(available_connections) = Slots

\* The ADD statements are being run after a load in which workers held
\* slots: every table was attempted, and the slots came back in another
\* order than they were created in.
C36_Witness ==
    /\ pc = "restore_batches"
    /\ batch_i > 0
    /\ \A t \in Tables \ SKIP_TABLES : attempt_log[t] # <<>>
    /\ available_connections # [k \in 1..MAX_WORKERS |-> k - 1]

\* How many times slot s is on the free list, and how many workers hold it.
TimesFree(s) == Cardinality({k \in DOMAIN available_connections : available_connections[k] = s})
TimesHeld(s) == Cardinality({t \in DOMAIN conn_idx : conn_idx[t] = s})
TornDown == pc \in {"script", "report", "done", "raised"}

\* C37: a slot is either on the free list, once, or held by one worker, who
\* puts it back when its load ends, whether that returned or raised; so
\* between rounds and at teardown every slot is on the free list exactly
\* once; and after teardown every connection of the pool is closed.
C37_SlotsReturnedOnceAndClosed ==
    /\ \A s \in Slots : TimesFree(s) + TimesHeld(s) = 1
    /\ \A t \in Tables : t \in DOMAIN conn_idx <=> task[t] = "holding"
    /\ pc # "wait" => \A s \in Slots : TimesFree(s) = 1
    /\ TornDown => \A s \in Slots : src_state[s] = "closed" /\ tgt_state[s] = "closed"

\* A run is over in which a load raised out of its worker and the slots
\* were handed out more than once: all slots are back and closed.
C37_Witness ==
    /\ TornDown
    /\ \E t \in Tables : \E k \in DOMAIN attempt_log[t] : attempt_log[t][k] = "raised"
    /\ \E t \in Tables : Len(attempt_log[t]) = 2
    /\ \A s \in Slots : TimesFree(s) = 1 /\ tgt_state[s] = "closed"

\* The step ends an attempt on t with the given outcome.
AttemptEnds(t, outcome) ==
    /\ Len(attempt_log'[t]) = Len(attempt_log[t]) + 1
    /\ Last(attempt_log'[t]) = outcome

\* C38 as claimed: an attempt that fails ends inside the attempt, by the
\* return of (False, message) after a rollback, with none of its rows
\* committed: no attempt raises out of the worker, with or without rows.
C38_AsClaimed ==
    \A t \in Tables : \A k \in DOMAIN attempt_log[t] :
        attempt_log[t][k] \notin {"raised", "raised after commit"}

\* C38, amended: an attempt that fails on an open target connection is
\* caught inside the attempt and rolled back: it returns False, the rows of
\* the target are what they were and the connection stays open.  An attempt
\* whose target connection is lost raises out of the worker, and its rows
\* are committed only if the commit itself lost the connection.  In every
\* case the table is in the input of the next round.
C38_FailedAttemptRetried ==
    /\ [](/\ pc = "wait" =>
               \A t \in Tables :
                  (task[t] = "idle" /\ Len(attempt_log[t]) = attempt
                   /\ ~Succeeded(attempt_log[t][attempt])) => t \in Range(next_round)
          /\ (pc = "load" /\ attempt > 1) =>
               \A t \in Tables :
                  (Len(attempt_log[t]) = attempt - 1
                   /\ ~Succeeded(attempt_log[t][attempt - 1]))
                     => t \in Range(remaining_tables))
    /\ [][\A t \in Tables :
            /\ AttemptEnds(t, "False") =>
                  /\ tgt_rows' = tgt_rows
                  /\ tgt_state' = tgt_state
                  /\ tgt_state[conn_idx[t]] = "open"
            /\ AttemptEnds(t, "raised") =>
                  /\ tgt_rows' = tgt_rows
                  /\ tgt_state'[conn_idx[t]] = "closed"
            /\ AttemptEnds(t, "raised after commit") =>
                  /\ tgt_state[conn_idx[t]] = "open"
                  /\ tgt_state'[conn_idx[t]] = "closed"]_vars

\* The second round is about to start with a table whose first attempt was
\* rolled back and a table whose first attempt lost its connection while
\* committing, the rows of which are on the target.
C38_Witness ==
    /\ pc = "load" /\ attempt = 2
    /\ \E t, u \in Range(remaining_tables) :
          /\ attempt_log[t] = <<"False">>
          /\ attempt_log[u] = <<"raised after commit">>
          /\ tgt_rows[u][MaxRowId] > 0
          /\ tgt_rows[t] = [i \in RowIds |-> 0]

\* SELECT COUNT(*) FROM public.<table>, on the source and on the target.
source_count(t) == Cardinality(src_rows(t))
target_count(t) ==
    LET Sum[i \in 0..MaxRowId] == IF i = 0 THEN 0 ELSE Sum[i - 1] + tgt_rows[t][i]
    IN Sum[MaxRowId]

\* compare_row_counts: {table: (src_count, tgt_count)} for the tables of
\* table_names whose counts differ.
compare_row_counts(table_names) ==
    [t \in {u \in table_names : source_count(u) # target_count(u)} |->
        <<source_count(t), target_count(t)>>]

\* C39 as claimed: when the run is over, what it reports is exactly the
\* tables whose COUNT(*) differs between source and target.
C39_AsClaimed ==
    pc = "done" => Range(reported_failed) = DOMAIN compare_row_counts(Tables)

====
